---- MODULE Spec2Model ----
(***************************************************************************)
(* State-machine model of tscrape:                                         *)
(*   - the continuity / bias tracker (src/tscrape/bias.py, BiasTracker),   *)
(*   - the checkpointed fetch loop (src/tscrape/scraper.py,                *)
(*     TelegramScraper.scrape_channel) over the storage manager            *)
(*     (src/tscrape/storage.py, StorageManager).                           *)
(*                                                                         *)
(* One channel is modelled; every table of the code that is keyed by       *)
(* (channel_id, message_id) is keyed here by the message id alone.         *)
(* Timestamps (first_seen_ts, last_checked_ts, observed_ts, start/end      *)
(* times) are not modelled: message_status_history is a sequence in        *)
(* insertion order, and "ORDER BY observed_ts DESC LIMIT 1" is its last    *)
(* matching entry (the wall clock is taken to be increasing).              *)
(***************************************************************************)
EXTENDS Integers, Sequences, FiniteSets, TLC, Bags

(***************************************************************************)
(* Bounds of the model.                                                    *)
(***************************************************************************)
\* message ids handed to the tracker range over 0..MaxId
MaxId == 1
\* at most MaxHist rows in message_status_history
MaxHist == 3
\* at most MaxRuns calls of start_run (run ids 1..MaxRuns)
MaxRuns == 1
\* messages_collected of a manifest is counted up to MaxCollected
MaxCollected == 1
\* the counts of a BiasMetrics object range over 0..MaxCount
MaxCount == 2
\* the channel holds a non-empty subset of the message ids 1..MaxMsgs
MaxMsgs == 3
\* config.batch_size ranges over 1..MaxBatch
MaxBatch == 2
\* StorageManager._buffer_size, the length at which save_messages writes the
\* write buffer to a parquet file.  storage.py:72 sets it to 1000 (ten times
\* the default batch_size of config.py:32); it is scaled to the channel sizes
\* of the model, and MaxBatch reaches it so that both a batch_size below it
\* and one that fills the buffer at once are covered.
BufferSize == 2
\* at most MaxScrapes calls of scrape_channel
MaxScrapes == 2
\* the min_id argument of scrape_channel ranges over 0..MaxMinId
MaxMinId == 1
\* ScraperConfig.batch_size as config.py:32 sets it
DefaultBatchSize == 100
\* the gap scan is exercised over the message ids 0..MaxGapId
MaxGapId == 3
\* flood_waits, proxy_rotations and errors_encountered of a manifest are
\* counted up to MaxEvents
MaxEvents == 2

\* a ProxyManager holds at most MaxProxies endpoints (keys 1..MaxProxies)
MaxProxies == 2
\* successes of an endpoint are counted up to MaxSuccesses
MaxSuccesses == 2
\* failures of an endpoint are counted up to MaxFailures
MaxFailures == 5
\* proxy.py:93, the failure count from which an endpoint can be marked dead
DeadFailures == 3
\* proxy.py:93, the success rate 0.2 below which an endpoint can be marked
\* dead, as the fraction 1/LowRateInverse
LowRateInverse == 5
\* proxy.py:413, the weighted strategy draws from at least TopMin endpoints
TopMin == 10
\* proxy.py:413, and from a quarter of the available ones if that is more
TopShare == 4

\* a MediaDownloader has 1..MaxConcurrent parallel downloads
MaxConcurrent == 2
\* worker tasks are created up to MaxWorkerTasks in all
MaxWorkerTasks == 4
\* the unfinished tasks of the download queue are counted up to MaxUnfinished
MaxUnfinished == 5
\* wait_completion is called up to MaxWaits times
MaxWaits == 2
\* config.py:37, media_concurrent_downloads
DefaultMaxConcurrent == 3
\* media.py:62, asyncio.Queue() is created without a maxsize
QueueMaxsize == 0

\* message ids of the web pages are 1..MaxWebId
MaxWebId == 1
\* a web page holds 1..MaxPage messages
MaxPage == 2
\* the limit of a web scrape is None or 0..MaxLimit
MaxLimit == 2

\* self._flood_wait_count is counted up to MaxFloods
MaxFloods == 13
\* scraper.py:390, the penalty added per counted rate-limit event, in seconds
FloodIncrement == 5
\* scraper.py:390, the ceiling of the penalty, in seconds
FloodCap == 60
\* scraper.py:399, the flood count from which a rotation is asked for
RotationThreshold == 2
\* scraper.py:408, the ceiling of the wait after a reconnect through a new
\* endpoint, in seconds
RotatedWaitCap == 30

Ids == 0..MaxId

GapIds == 0..MaxGapId

\* bias.py:34-40, class MessageStatus
MessageStatus == {"observed", "deleted", "inaccessible", "unknown", "edited"}

\* the texts handed to record_message; "" stands for both "" and None
\* (both are falsy in `if text:`)
Texts == {"", "a", "b"}

\* SQL NULL / Python None in a checksum column
None == "None"

VARIABLES
    \* ---- durable store of the tracker (sqlite, bias.py:279-321) ----
    message_continuity,      \* table: message id -> [observed, status]
    message_status_history,  \* table: sequence of [message_id, status, text_checksum]
    scrape_runs,             \* table: run_id -> manifest (manifest_json)
    manifest_files,          \* files manifest_<run_id>.json: run_id -> manifest
    \* ---- in-memory state of one BiasTracker instance ----
    observed_ids,            \* self._observed_ids[channel]
    current_run,             \* self._current_run: <<>> (None) or <<manifest>>
    next_run_id,             \* the next fresh uuid4
    \* ---- a BiasMetrics object and the ratio properties read from it ----
    metrics,                 \* the dataclass fields (bias.py:150-159)
    rates,                   \* <<>> or <<the four ratio properties of metrics>>
    \* ---- the source: the messages of the channel ----
    channel,                 \* ids of the (non-service) messages of the channel
    \* ---- durable state of the StorageManager ----
    scrape_state,            \* table row of the channel: <<>> or <<[last_message_id,
                             \*   messages_scraped]>>
    parquet_files,           \* the messages_*.parquet files: sequence of id sequences
    \* ---- in-memory state of the process ----
    write_buffer,            \* StorageManager._write_buffer[channel_id]
    batch_size,              \* config.batch_size
    pc,                      \* position of the scrape_channel generator
    pending,                 \* what client.iter_messages has still to deliver
    batch,                   \* local `batch` of scrape_channel
    messages_scraped,        \* self._messages_scraped
    is_running,              \* self._is_running
    loop_exit,               \* "no" inside the loop, else how the loop was left
    \* ---- record of the scrape_channel calls made so far ----
    calls,                   \* per call: its arguments, what it yielded, the batches
                             \*   it passed to save_messages, the batches it flushed
    \* ---- a ProxyManager and its endpoints (proxy.py:133-149, 55-61) ----
    proxies,                 \* self._proxies: sequence of [key, successes, failures,
                             \*   is_dead]
    dead_proxies,            \* self._dead_proxies: set of "host:port" keys
    current_index,           \* self._current_index
    rotation_strategy,       \* self.rotation_strategy
    selected,                \* <<>> or <<what the last get_proxy returned>>
    \* ---- rate-limit handling of a TelegramScraper (scraper.py:48-74) ----
    proxy_manager,           \* TRUE iff the scraper was given a ProxyManager
    proxy_rotation_on_flood, \* self._proxy_rotation_on_flood
    flood_wait_count,        \* self._flood_wait_count
    current_proxy,           \* self._current_proxy: None or the key of an endpoint
    last_wait,               \* <<>> or <<what the last _handle_flood_wait did>>
    \* ---- TelegramScraper.connect (scraper.py:76-138) ----
    connection,              \* <<>> or <<the connect call in progress or the last
                             \*   one: the endpoints tried in order, and how it
                             \*   stands>>
    \* ---- a MediaDownloader (media.py:50-71) ----
    max_concurrent,          \* self.max_concurrent
    media_queue,             \* self._queue: the items not yet taken by a worker
    unfinished_tasks,        \* self._queue._unfinished_tasks (asyncio.Queue)
    media_running,           \* self._is_running
    workers,                 \* the worker tasks ever created, in order of
                             \*   creation: the position of each
    worker_list,             \* self._workers: the tasks it holds (indices)
    waiter,                  \* the caller of wait_completion or stop_workers:
                             \*   its position, the tasks it gathers, and the
                             \*   number of wait_completion calls so far
    \* ---- WebHTMLBackend.scrape_channel (web_backend.py:160-244) ----
    web_pc,                  \* position of the generator
    web_limit,               \* the limit argument (None: no limit)
    before_id,               \* local before_id
    seen_ids,                \* local seen_ids: the fingerprints seen
    web_yielded,             \* the bag of the items yielded by this call
    web_messages_scraped,    \* self._messages_scraped of the backend
    web_requests,            \* the calls of _fetch_page made by this call
    \* ---- the backend whose items the tracker is fed with ----
    backend                  \* BackendType value of the adapter in use

tracker_vars == <<message_continuity, message_status_history, scrape_runs,
                  manifest_files, observed_ids, current_run, next_run_id>>

metrics_vars == <<metrics, rates>>

fetch_vars == <<channel, scrape_state, parquet_files, write_buffer, batch_size,
                pc, pending, batch, messages_scraped, is_running, loop_exit, calls>>

proxy_vars == <<proxies, dead_proxies, current_index, rotation_strategy, selected>>

flood_vars == <<proxy_manager, proxy_rotation_on_flood, flood_wait_count,
                current_proxy, last_wait>>

connect_vars == <<connection>>

media_vars == <<max_concurrent, media_queue, unfinished_tasks, media_running,
                workers, worker_list, waiter>>

web_vars == <<web_pc, web_limit, before_id, seen_ids, web_yielded,
              web_messages_scraped, web_requests>>

adapter_vars == <<backend>>

\* the components that the tracker, the metrics, the fetch loop, the proxy
\* pool and the rate-limit handler all leave alone
other_vars == <<connect_vars, media_vars, web_vars, adapter_vars>>

vars == <<tracker_vars, metrics_vars, fetch_vars, proxy_vars, flood_vars,
          other_vars>>

\* what an operation of the tracker cannot touch
not_tracker == <<metrics_vars, fetch_vars, proxy_vars, flood_vars, other_vars>>
\* what reading a BiasMetrics cannot touch
not_metrics == <<tracker_vars, fetch_vars, proxy_vars, flood_vars, other_vars>>
\* what the fetch loop and the storage manager cannot touch (scraper.py makes
\* no call to the bias tracker)
not_fetch == <<tracker_vars, metrics_vars, proxy_vars, flood_vars, other_vars>>
\* what a ProxyManager cannot touch
not_proxy == <<tracker_vars, metrics_vars, fetch_vars, flood_vars, other_vars>>
\* what the rate-limit handler cannot touch (it sleeps, reconnects and reports
\* to the ProxyManager)
not_flood == <<tracker_vars, metrics_vars, fetch_vars, other_vars>>
\* what connect cannot touch (it asks the ProxyManager and sets the current
\* endpoint of the scraper)
not_connect == <<tracker_vars, metrics_vars, fetch_vars, media_vars, web_vars,
                 adapter_vars>>
\* what a MediaDownloader cannot touch
not_media == <<tracker_vars, metrics_vars, fetch_vars, proxy_vars, flood_vars,
               connect_vars, web_vars, adapter_vars>>
\* what the HTML-sourced adapter cannot touch
not_web == <<tracker_vars, metrics_vars, fetch_vars, proxy_vars, flood_vars,
             connect_vars, media_vars, adapter_vars>>

----------------------------------------------------------------------------
(***************************************************************************)
(* Helpers                                                                 *)
(***************************************************************************)
Min(S) == CHOOSE x \in S : \A y \in S : x <= y
Max(S) == CHOOSE x \in S : \A y \in S : x >= y

IsPrefix(s, t) == Len(s) <= Len(t) /\ \A i \in 1..Len(s) : s[i] = t[i]

\* status of the row of a key, "none" when the table has no row for it
StatusOf(table, id) == IF id \in DOMAIN table THEN table[id].status ELSE "none"

\* bias.py:412-416: sha256(text)[:16], None for a falsy text.  The digest is
\* kept symbolic; distinct texts of the model have distinct digests.
Checksum(text) == IF text = "" THEN None ELSE "sha256:" \o text

----------------------------------------------------------------------------
(***************************************************************************)
(* BiasTracker: the store effects of its operations, as the SQL does them  *)
(***************************************************************************)
HistoryEntry(id, status, checksum) ==
    [message_id |-> id, status |-> status, text_checksum |-> checksum]

\* bias.py:420-428: INSERT ... ON CONFLICT DO UPDATE SET observed = 1,
\* status = 'observed'
UpsertObserved(table, id) ==
    (id :> [observed |-> 1, status |-> "observed"]) @@ table

\* bias.py:432-438: the most recent 'observed' history row of the key,
\* <<>> when fetchone() returns None
LastObserved(history, id) ==
    LET idx == {i \in 1..Len(history) :
                    /\ history[i].message_id = id
                    /\ history[i].status = "observed"}
    IN  IF idx = {} THEN <<>> ELSE <<history[Max(idx)]>>

\* bias.py:439: `row and row[0] and row[0] != checksum`
IsEdit(history, id, checksum) ==
    LET row == LastObserved(history, id)
    IN  /\ row # <<>>
        /\ row[1].text_checksum # None
        /\ row[1].text_checksum # checksum

\* RecordMessageStore with the edit check made only for a key this tracker
\* instance has itself seen (self._observed_ids as the evidence of an earlier
\* observation)
RecordMessageStore_InMemory(table, history, observed, run, id, text, check_edit) ==
    LET checksum == Checksum(text)
        up       == UpsertObserved(table, id)
    IN  IF check_edit /\ checksum # None
        THEN IF id \in observed /\ IsEdit(history, id, checksum)
             THEN [continuity |-> [up EXCEPT ![id].status = "edited"],
                   history    |-> Append(history, HistoryEntry(id, "edited", checksum))]
             ELSE [continuity |-> up,
                   history    |-> Append(history, HistoryEntry(id, "observed", checksum))]
        ELSE [continuity |-> up, history |-> history]

\* bias.py:411-457: what record_message writes to the two tables.  The
\* in-memory fields of the tracker (observed, run) are parameters: the code
\* reads neither of them here.
RecordMessageStore(table, history, observed, run, id, text, check_edit) ==
    LET checksum == Checksum(text)
        up       == UpsertObserved(table, id)
    IN  IF check_edit /\ checksum # None
        THEN IF IsEdit(history, id, checksum)
             THEN [continuity |-> [up EXCEPT ![id].status = "edited"],
                   history    |-> Append(history, HistoryEntry(id, "edited", checksum))]
             ELSE [continuity |-> up,
                   history    |-> Append(history, HistoryEntry(id, "observed", checksum))]
        ELSE [continuity |-> up, history |-> history]

\* GapStatus as a plain upsert: status = excluded.status
GapStatus_Overwrite(old_status, new_status) == new_status

\* bias.py:478-481: the CASE of the ON CONFLICT branch of record_gap
GapStatus(old_status, new_status) ==
    IF old_status = "observed" THEN "deleted" ELSE new_status

\* bias.py:471-482: INSERT (observed = 0, status) or, on conflict, the CASE
RecordGapStore(table, id, status) ==
    IF id \in DOMAIN table
    THEN [table EXCEPT ![id].status = GapStatus(table[id].status, status)]
    ELSE (id :> [observed |-> 0, status |-> status]) @@ table

\* bias.py:489-493: UPDATE ... SET status = 'deleted' WHERE key (no row: no-op)
RecordDeletionContinuity(table, id) ==
    IF id \in DOMAIN table THEN [table EXCEPT ![id].status = "deleted"] ELSE table

\* RecordDeletionHistory as an UPDATE of the rows of the key
RecordDeletionHistory_Update(history, id) ==
    [i \in 1..Len(history) |->
        IF history[i].message_id = id
        THEN [history[i] EXCEPT !.status = "deleted"] ELSE history[i]]

\* bias.py:495-499: INSERT of a 'deleted' history row without checksum
RecordDeletionHistory(history, id) ==
    Append(history, HistoryEntry(id, "deleted", None))

\* GapSet with the expected range taken as range(min_msg_id, max_msg_id)
GapSet_Exclusive(observed, min_msg_id, max_msg_id) ==
    (min_msg_id..(max_msg_id - 1)) \ observed

\* bias.py:533-535: expected - observed
GapSet(observed, min_msg_id, max_msg_id) == (min_msg_id..max_msg_id) \ observed

\* DetectGapsStore recording a gap for every id of the table as well
DetectGapsStore_AllRows(table, gaps) ==
    [id \in DOMAIN table \cup gaps |-> RecordGapStore(table, id, "unknown")[id]]

\* bias.py:538-539: record_gap(channel_id, gap_id) for every gap (keys are
\* independent, so the iteration order of the set does not matter)
DetectGapsStore(table, gaps) ==
    [id \in DOMAIN table \cup gaps |->
        IF id \in gaps THEN RecordGapStore(table, id, "unknown")[id] ELSE table[id]]

\* sorted(gaps), bias.py:541
RECURSIVE Sorted(_)
Sorted(S) == IF S = {} THEN <<>> ELSE <<Min(S)>> \o Sorted(S \ {Min(S)})

----------------------------------------------------------------------------
(***************************************************************************)
(* BiasMetrics and compute_metrics                                         *)
(***************************************************************************)
\* A Python float result, or the ZeroDivisionError that `/` raises: the
\* quotient num/den is kept as the pair.
Quotient(num, den) ==
    IF den = 0 THEN [raised |-> TRUE, num |-> num, den |-> den]
               ELSE [raised |-> FALSE, num |-> num, den |-> den]

\* the literal 0.0
Zero == [raised |-> FALSE, num |-> 0, den |-> 1]

\* bias.py:169-174
gap_ratio(m) ==
    IF m.expected_message_count = 0 THEN Zero
    ELSE Quotient(m.gap_count, m.expected_message_count)

\* bias.py:176-181
deletion_rate(m) ==
    IF m.observed_message_count = 0 THEN Zero
    ELSE Quotient(m.confirmed_deleted, m.observed_message_count)

\* coverage_rate without the guard on the denominator
coverage_rate_Unguarded(m) ==
    Quotient(m.observed_message_count, m.expected_message_count)

\* bias.py:183-188
coverage_rate(m) ==
    IF m.expected_message_count = 0 THEN Zero
    ELSE Quotient(m.observed_message_count, m.expected_message_count)

\* bias.py:190-195
edit_rate(m) ==
    IF m.observed_message_count = 0 THEN Zero
    ELSE Quotient(m.edited_messages, m.observed_message_count)

\* bias.py:560-565: SELECT status, COUNT(*) ... GROUP BY status
CountStatus(table, statuses) ==
    Cardinality({id \in DOMAIN table : table[id].status \in statuses})

\* bias.py:543-605 (the temporal fields are not modelled).  MIN/MAX over no
\* row is NULL, and `row['min_id'] and row['max_id']` is also false for an
\* id of 0.
ComputeMetrics(table) ==
    LET observed  == CountStatus(table, {"observed", "edited"})
        has_range == /\ DOMAIN table # {}
                     /\ Min(DOMAIN table) # 0
                     /\ Max(DOMAIN table) # 0
        expected  == IF has_range
                     THEN Max(DOMAIN table) - Min(DOMAIN table) + 1 ELSE 0
    IN  [expected_message_count |-> expected,
         observed_message_count |-> observed,
         gap_count              |-> IF has_range THEN expected - observed ELSE 0,
         confirmed_deleted      |-> CountStatus(table, {"deleted"}),
         possibly_deleted       |-> CountStatus(table, {"unknown", "inaccessible"}),
         edited_messages        |-> CountStatus(table, {"edited"})]

----------------------------------------------------------------------------
(***************************************************************************)
(* Run manifests                                                           *)
(***************************************************************************)
\* bias.py:344-352 with the defaults of the dataclass, bias.py:106-110
NewManifest(run_id) ==
    [run_id |-> run_id, ended |-> FALSE,
     messages_collected |-> 0, messages_skipped |-> 0, errors_encountered |-> 0,
     flood_waits |-> 0, proxy_rotations |-> 0]

\* Finalized without the end time
Finalized_NoEndTime(run) == run

\* bias.py:364: end_time_utc is set (the manifest is then serialised)
Finalized(run) == [run EXCEPT !.ended = TRUE]

\* bias.py:361-362, 384-386: what end_run returns
EndRunResult(run) == IF run = <<>> THEN None ELSE Finalized(run[1])

\* BumpCounter counting the event as a skipped message as well
BumpCounter_AlsoSkipped(run, counter) ==
    IF run = <<>> THEN run
    ELSE <<[run[1] EXCEPT ![counter] = @ + 1, !.messages_skipped = @ + 1]>>

\* bias.py:501-514: `if self._current_run: self._current_run.<counter> += 1`
BumpCounter(run, counter) ==
    IF run = <<>> THEN run ELSE <<[run[1] EXCEPT ![counter] = @ + 1]>>

----------------------------------------------------------------------------
(***************************************************************************)
(* BiasTracker: one action per operation                                   *)
(***************************************************************************)
TrackerInit ==
    /\ message_continuity = <<>>
    /\ message_status_history = <<>>
    /\ scrape_runs = <<>>
    /\ manifest_files = <<>>
    /\ observed_ids = {}
    /\ current_run = <<>>
    /\ next_run_id = 1

\* bias.py:273-277: a new BiasTracker over the same database file (a process
\* restart): the tables are kept, the in-memory fields start empty
NewTracker ==
    /\ observed_ids' = {}
    /\ current_run' = <<>>
    /\ UNCHANGED <<message_continuity, message_status_history, scrape_runs,
                   manifest_files, next_run_id>>
    /\ UNCHANGED not_tracker

\* bias.py:323-357, for the runs up to the given number: the manifest of a
\* new run replaces self._current_run, whatever it holds
StartRun(max_runs) ==
    /\ next_run_id <= max_runs
    /\ current_run' = <<NewManifest(next_run_id)>>
    /\ next_run_id' = next_run_id + 1
    /\ observed_ids' = {}
    /\ UNCHANGED <<message_continuity, message_status_history, scrape_runs,
                   manifest_files>>
    /\ UNCHANGED not_tracker

\* bias.py:323-357
start_run == StartRun(MaxRuns)

\* bias.py:359-386
end_run ==
    /\ IF current_run = <<>>
       THEN UNCHANGED <<scrape_runs, manifest_files, current_run>>
       ELSE LET run == Finalized(current_run[1])
            IN  /\ scrape_runs' = (run.run_id :> run) @@ scrape_runs
                /\ manifest_files' = (run.run_id :> run) @@ manifest_files
                /\ current_run' = <<>>
    /\ UNCHANGED <<message_continuity, message_status_history, observed_ids,
                   next_run_id>>
    /\ UNCHANGED not_tracker

\* bias.py:388-460
record_message(id, text, check_edit) ==
    LET out == RecordMessageStore(message_continuity, message_status_history,
                                  observed_ids, current_run, id, text, check_edit)
    IN  /\ Len(out.history) <= MaxHist
        /\ current_run # <<>> => current_run[1].messages_collected < MaxCollected
        /\ observed_ids' = observed_ids \cup {id}
        /\ message_continuity' = out.continuity
        /\ message_status_history' = out.history
        /\ current_run' = IF current_run = <<>> THEN current_run
                          ELSE <<[current_run[1] EXCEPT !.messages_collected = @ + 1]>>
        /\ UNCHANGED <<scrape_runs, manifest_files, next_run_id>>
        /\ UNCHANGED not_tracker

\* bias.py:462-482
record_gap(id, status) ==
    /\ message_continuity' = RecordGapStore(message_continuity, id, status)
    /\ UNCHANGED <<message_status_history, scrape_runs, manifest_files,
                   observed_ids, current_run, next_run_id>>
    /\ UNCHANGED not_tracker

\* bias.py:484-499
record_deletion(id) ==
    /\ Len(message_status_history) < MaxHist
    /\ message_continuity' = RecordDeletionContinuity(message_continuity, id)
    /\ message_status_history' = RecordDeletionHistory(message_status_history, id)
    /\ UNCHANGED <<scrape_runs, manifest_files, observed_ids, current_run,
                   next_run_id>>
    /\ UNCHANGED not_tracker

\* bias.py:516-541
detect_gaps(min_msg_id, max_msg_id) ==
    LET gaps == GapSet(observed_ids, min_msg_id, max_msg_id)
    IN  /\ message_continuity' = DetectGapsStore(message_continuity, gaps)
        /\ UNCHANGED <<message_status_history, scrape_runs, manifest_files,
                       observed_ids, current_run, next_run_id>>
        /\ UNCHANGED not_tracker

\* bias.py:543-605
compute_metrics ==
    /\ UNCHANGED tracker_vars
    /\ UNCHANGED not_tracker

\* the events of a run are counted up to MaxEvents
CanCount(counter) ==
    current_run # <<>> => current_run[1][counter] < MaxEvents

\* bias.py:501-504
record_flood_wait ==
    /\ CanCount("flood_waits")
    /\ current_run' = BumpCounter(current_run, "flood_waits")
    /\ UNCHANGED <<message_continuity, message_status_history, scrape_runs,
                   manifest_files, observed_ids, next_run_id>>
    /\ UNCHANGED not_tracker

\* bias.py:506-509
record_proxy_rotation ==
    /\ CanCount("proxy_rotations")
    /\ current_run' = BumpCounter(current_run, "proxy_rotations")
    /\ UNCHANGED <<message_continuity, message_status_history, scrape_runs,
                   manifest_files, observed_ids, next_run_id>>
    /\ UNCHANGED not_tracker

\* bias.py:511-514
record_error ==
    /\ CanCount("errors_encountered")
    /\ current_run' = BumpCounter(current_run, "errors_encountered")
    /\ UNCHANGED <<message_continuity, message_status_history, scrape_runs,
                   manifest_files, observed_ids, next_run_id>>
    /\ UNCHANGED not_tracker

TrackerNext ==
    \/ NewTracker
    \/ start_run
    \/ end_run
    \/ \E id \in Ids, text \in Texts, check_edit \in BOOLEAN :
            record_message(id, text, check_edit)
    \/ \E id \in Ids, status \in MessageStatus : record_gap(id, status)
    \/ \E id \in Ids : record_deletion(id)
    \/ \E lo \in Ids, hi \in Ids : detect_gaps(lo, hi)
    \/ compute_metrics

----------------------------------------------------------------------------
(***************************************************************************)
(* BiasMetrics as a value: any non-negative counts (the dataclass takes    *)
(* them as constructor arguments) and its four ratio properties            *)
(***************************************************************************)
\* bias.py:150-159: the defaults of the dataclass
DefaultMetrics ==
    [expected_message_count |-> 0, observed_message_count |-> 0, gap_count |-> 0,
     confirmed_deleted |-> 0, possibly_deleted |-> 0, edited_messages |-> 0]

MetricsInit ==
    /\ metrics = DefaultMetrics
    /\ rates = <<>>

\* bias.py:169-195: reading the four properties of a BiasMetrics
ReadRates ==
    /\ rates = <<>>
    /\ rates' = <<[gap_ratio     |-> gap_ratio(metrics),
                   deletion_rate |-> deletion_rate(metrics),
                   coverage_rate |-> coverage_rate(metrics),
                   edit_rate     |-> edit_rate(metrics)]>>
    /\ UNCHANGED metrics
    /\ UNCHANGED not_metrics

----------------------------------------------------------------------------
(***************************************************************************)
(* StorageManager and the checkpointed fetch loop                          *)
(***************************************************************************)
Range(s) == {s[i] : i \in 1..Len(s)}

\* the ids of a sequence of batches
BatchIds(batches) == UNION {Range(batches[i]) : i \in 1..Len(batches)}

\* scraper.py:236-244, client.iter_messages(entity, min_id=min_id) with the
\* other arguments at their defaults: the messages with an id greater than
\* min_id, newest first
RECURSIVE Descending(_)
Descending(S) == IF S = {} THEN <<>> ELSE <<Max(S)>> \o Descending(S \ {Max(S)})

iter_messages(min_id) == Descending({id \in channel : id > min_id})

\* ResumeMinId taking the checkpoint whenever one is stored
ResumeMinId_Checkpoint(resume, min_id) ==
    IF resume /\ scrape_state # <<>> /\ scrape_state[1].last_message_id > 0
    THEN scrape_state[1].last_message_id
    ELSE min_id

\* scraper.py:223-228: the lower bound of the fetch
ResumeMinId(resume, min_id) ==
    IF /\ resume
       /\ scrape_state # <<>>
       /\ scrape_state[1].last_message_id > 0
       /\ (min_id = 0 \/ scrape_state[1].last_message_id > min_id)
    THEN scrape_state[1].last_message_id
    ELSE min_id

\* storage.py:147-155: INSERT with the column defaults (storage.py:88, 90);
\* the ON CONFLICT branch touches neither last_message_id nor messages_scraped
InitChannelRow(row) ==
    IF row = <<>> THEN <<[last_message_id |-> 0, messages_scraped |-> 0]>> ELSE row

\* oldest_id as the id of the newest message of the batch
OldestId_Newest(b) == Max(Range(b))

\* scraper.py:375: min(m.message_id for m in batch)
OldestId(b) == Min(Range(b))

\* storage.py:209-213: UPDATE scrape_state SET last_message_id = ?,
\* messages_scraped = ? WHERE channel_id = ? (no row: nothing is updated)
UpdateRow(row, last_message_id, scraped) ==
    IF row = <<>> THEN row
    ELSE <<[last_message_id |-> last_message_id, messages_scraped |-> scraped]>>

NewCall(resume, min_id) ==
    [resume |-> resume, min_id |-> min_id, yielded |-> <<>>, saved |-> <<>>,
     flushed |-> <<>>, end |-> "running"]

\* the record of the call in progress, updated
ThisCall(field, value) == [calls EXCEPT ![Len(calls)][field] = value]

\* scraper.py:280-300: after the loop, the remaining batch is saved, and the
\* generator returns through `finally`
LeaveLoop(how) ==
    IF batch # <<>>
    THEN /\ pc' = "save"
         /\ loop_exit' = how
         /\ UNCHANGED <<is_running, calls>>
    ELSE /\ pc' = "idle"
         /\ loop_exit' = "no"
         /\ is_running' = FALSE
         /\ calls' = ThisCall("end", how)

\* scraper.py:212-244: the call of scrape_channel up to the first request of
\* a message, with storage.get_scrape_state and storage.init_channel
scrape_channel(resume, min_id) ==
    /\ pc = "idle"
    /\ Len(calls) < MaxScrapes
    /\ is_running' = TRUE
    /\ messages_scraped' = 0
    /\ pending' = iter_messages(ResumeMinId(resume, min_id))
    /\ write_buffer' = <<>>
    /\ scrape_state' = InitChannelRow(scrape_state)
    /\ batch' = <<>>
    /\ loop_exit' = "no"
    /\ pc' = "fetch"
    /\ calls' = Append(calls, NewCall(resume, min_id))
    /\ UNCHANGED <<channel, parquet_files, batch_size>>
    /\ UNCHANGED not_fetch

StopSeen_Never == FALSE

\* scraper.py:245, `if not self._is_running`
StopSeen == ~is_running

\* scraper.py:236-267: one iteration of the loop: the stop check, the append
\* to the batch, the yield and the test of the batch length
next_message ==
    /\ pc = "fetch"
    /\ pending # <<>>
    /\ IF StopSeen
       THEN /\ LeaveLoop("stopped")
            /\ UNCHANGED <<pending, batch, messages_scraped>>
       ELSE /\ pending' = Tail(pending)
            /\ batch' = Append(batch, Head(pending))
            /\ messages_scraped' = messages_scraped + 1
            /\ calls' = ThisCall("yielded",
                                 Append(calls[Len(calls)].yielded, Head(pending)))
            /\ pc' = IF Len(batch) + 1 >= batch_size THEN "save" ELSE "fetch"
            /\ UNCHANGED <<is_running, loop_exit>>
    /\ UNCHANGED <<channel, scrape_state, parquet_files, write_buffer, batch_size>>
    /\ UNCHANGED not_fetch

\* scraper.py:236, 280-300: iter_messages has no further message
iteration_ends ==
    /\ pc = "fetch"
    /\ pending = <<>>
    /\ LeaveLoop("completed")
    /\ UNCHANGED <<channel, scrape_state, parquet_files, write_buffer, batch_size,
                   pending, batch, messages_scraped>>
    /\ UNCHANGED not_fetch

\* storage.py:236-260, _flush_buffer: the records of the buffer become one
\* parquet file and the buffer is emptied; an empty buffer writes nothing
FlushedFiles(files, buffer) == IF buffer = <<>> THEN files ELSE Append(files, buffer)

\* scraper.py:372 and storage.py:215-234: the first half of _save_batch.  The
\* records are appended to the write buffer; the buffer is written to a
\* parquet file only when it has reached _buffer_size records.
save_messages ==
    /\ pc = "save"
    /\ LET buffer == write_buffer \o batch
       IN  IF Len(buffer) >= BufferSize
           THEN /\ parquet_files' = FlushedFiles(parquet_files, buffer)
                /\ write_buffer' = <<>>
           ELSE /\ write_buffer' = buffer
                /\ UNCHANGED parquet_files
    /\ calls' = ThisCall("saved", Append(calls[Len(calls)].saved, batch))
    /\ pc' = "checkpoint"
    /\ UNCHANGED <<channel, scrape_state, batch_size, pending, batch,
                   messages_scraped, is_running, loop_exit>>
    /\ UNCHANGED not_fetch

\* scraper.py:374-382 and storage.py:179-213: the second half of _save_batch,
\* then `batch = []` (scraper.py:267) or the return of the generator
update_scrape_state ==
    /\ pc = "checkpoint"
    /\ scrape_state' = UpdateRow(scrape_state, OldestId(batch), messages_scraped)
    /\ batch' = <<>>
    /\ LET done == [calls EXCEPT ![Len(calls)].flushed = Append(@, batch)]
       IN  IF loop_exit = "no"
           THEN /\ pc' = "fetch"
                /\ calls' = done
                /\ UNCHANGED <<is_running, loop_exit>>
           ELSE /\ pc' = "idle"
                /\ calls' = [done EXCEPT ![Len(calls)].end = loop_exit]
                /\ is_running' = FALSE
                /\ loop_exit' = "no"
    /\ UNCHANGED <<channel, parquet_files, write_buffer, batch_size, pending,
                   messages_scraped>>
    /\ UNCHANGED not_fetch

\* scraper.py:443-446, called by the consumer of the generator (cli.py:229)
stop ==
    /\ pc # "idle"
    /\ is_running
    /\ is_running' = FALSE
    /\ UNCHANGED <<channel, scrape_state, parquet_files, write_buffer, batch_size,
                   pc, pending, batch, messages_scraped, loop_exit, calls>>
    /\ UNCHANGED not_fetch

\* storage.py:262-268, for the one channel (no caller in the repository; the
\* owner of the StorageManager may call it while the generator is suspended
\* or has returned)
flush_all ==
    /\ pc \in {"idle", "fetch"}
    /\ IF scrape_state # <<>>
       THEN /\ parquet_files' = FlushedFiles(parquet_files, write_buffer)
            /\ write_buffer' = <<>>
       ELSE UNCHANGED <<parquet_files, write_buffer>>
    /\ UNCHANGED <<channel, scrape_state, batch_size, pc, pending, batch,
                   messages_scraped, is_running, loop_exit, calls>>
    /\ UNCHANGED not_fetch

\* storage.py:62-72 and scraper.py:48-74: the process ends at any point (a
\* crash, or its exit) and a new one is started over the same data directory.
\* The database and the parquet files are kept; the write buffer and the
\* state of the generator are those of the new objects.
NewProcess ==
    /\ pc # "idle" \/ write_buffer # <<>>
    /\ write_buffer' = <<>>
    /\ pc' = "idle"
    /\ pending' = <<>>
    /\ batch' = <<>>
    /\ messages_scraped' = 0
    /\ is_running' = FALSE
    /\ loop_exit' = "no"
    /\ calls' = IF pc # "idle" THEN ThisCall("end", "crashed") ELSE calls
    /\ UNCHANGED <<channel, scrape_state, parquet_files, batch_size>>
    /\ UNCHANGED not_fetch

FetchNext ==
    \/ \E resume \in BOOLEAN, min_id \in 0..MaxMinId :
            scrape_channel(resume, min_id)
    \/ next_message
    \/ iteration_ends
    \/ save_messages
    \/ update_scrape_state
    \/ stop
    \/ flush_all
    \/ NewProcess

\* a new data directory and a new process
StorageInit ==
    /\ scrape_state = <<>>
    /\ parquet_files = <<>>
    /\ write_buffer = <<>>
    /\ pc = "idle"
    /\ pending = <<>>
    /\ batch = <<>>
    /\ messages_scraped = 0
    /\ is_running = FALSE
    /\ loop_exit = "no"
    /\ calls = <<>>

\* any channel of at most MaxMsgs messages, any batch_size up to MaxBatch
FetchInit ==
    /\ channel \in (SUBSET (1..MaxMsgs)) \ {{}}
    /\ batch_size \in 1..MaxBatch
    /\ StorageInit

\* no channel is scraped: the configuration defaults
NoFetchInit ==
    /\ channel = {}
    /\ batch_size = DefaultBatchSize
    /\ StorageInit

----------------------------------------------------------------------------
(***************************************************************************)
(* The proxy pool: ProxyInfo and ProxyManager (proxy.py)                   *)
(***************************************************************************)
ProxyKeys == 1..MaxProxies

\* the None that get_proxy returns when no endpoint is available, and that
\* self._current_proxy holds while the scraper connects directly
NoProxy == 0

RotationStrategies == {"weighted", "random", "round_robin"}

\* proxy.py:55-61, a ProxyInfo as add_proxy builds it (no latency, no score)
NewProxy(key) == [key |-> key, successes |-> 0, failures |-> 0, is_dead |-> FALSE]

\* proxy.py:71-76, success_rate as the fraction num/den: 1.0 when the endpoint
\* was never used
success_rate(p) ==
    IF p.successes + p.failures = 0
    THEN [num |-> 1, den |-> 1]
    ELSE [num |-> p.successes, den |-> p.successes + p.failures]

\* success_rate < 0.2
LowRate(p) == success_rate(p).num * LowRateInverse < success_rate(p).den

\* proxy.py:79-83
MarkSuccess(p) == [p EXCEPT !.successes = @ + 1, !.is_dead = FALSE]

MarkFailure_FailuresOnly(p) ==
    LET q == [p EXCEPT !.failures = @ + 1]
    IN  IF q.failures >= DeadFailures THEN [q EXCEPT !.is_dead = TRUE] ELSE q

\* proxy.py:86-94
MarkFailure(p) ==
    LET q == [p EXCEPT !.failures = @ + 1]
    IN  IF q.failures >= DeadFailures /\ LowRate(q)
        THEN [q EXCEPT !.is_dead = TRUE]
        ELSE q

\* the position in the pool of the endpoint of a key (0 if it is not there)
IndexOf(ps, key) ==
    IF \E i \in 1..Len(ps) : ps[i].key = key
    THEN CHOOSE i \in 1..Len(ps) : ps[i].key = key
    ELSE 0

Keys(ps) == {ps[i].key : i \in 1..Len(ps)}

\* proxy.py:307-323 (_add_proxy): an endpoint of a key already present is not
\* added again
AddProxy(ps, key) == IF key \in Keys(ps) THEN ps ELSE Append(ps, NewProxy(key))

\* proxy.py:416-419
ReportSuccess(ps, key) == [ps EXCEPT ![IndexOf(ps, key)] = MarkSuccess(@)]

\* proxy.py:421-428, the endpoints and the set of dead keys
ReportFailure(ps, dead, key) ==
    LET qs == [ps EXCEPT ![IndexOf(ps, key)] = MarkFailure(@)]
    IN  [proxies |-> qs,
         dead_proxies |-> IF qs[IndexOf(ps, key)].is_dead
                          THEN dead \cup {key} ELSE dead]

Available_All(ps) == ps

\* proxy.py:386
Available(ps) == SelectSeq(ps, LAMBDA p : ~p.is_dead)

\* proxy.py:401-410: the score of an endpoint without latency and hunt score
\* is success_rate * 100; scored.sort(reverse=True) is stable, so of two
\* endpoints the one of the higher rate comes first, and of two of the same
\* rate the earlier one
ScoredBefore(av, j, i) ==
    LET a == success_rate(av[j])
        b == success_rate(av[i])
    IN  \/ a.num * b.den > b.num * a.den
        \/ a.num * b.den = b.num * a.den /\ j < i

\* proxy.py:413, scored[:max(10, len(scored) // 4)]
TopProxies(av) ==
    {av[i].key : i \in {k \in 1..Len(av) :
        Cardinality({j \in 1..Len(av) : ScoredBefore(av, j, k)})
            < Max({TopMin, Len(av) \div TopShare})}}

\* proxy.py:378-414: what get_proxy can return, with the _current_index it
\* leaves
GetProxy(ps, strategy, index) ==
    LET av == Available(ps)
    IN  IF av = <<>>
        THEN {[proxy |-> NoProxy, index |-> index]}
        ELSE IF strategy = "random"
        THEN {[proxy |-> av[i].key, index |-> index] : i \in 1..Len(av)}
        ELSE IF strategy = "round_robin"
        THEN {[proxy |-> av[((index + 1) % Len(av)) + 1].key,
               index |-> (index + 1) % Len(av)]}
        ELSE {[proxy |-> key, index |-> index] : key \in TopProxies(av)}

\* proxy.py:509-520, the endpoints after reset_dead_proxies
ResetDead(ps) ==
    [i \in 1..Len(ps) |->
        IF ps[i].is_dead
        THEN [ps[i] EXCEPT !.is_dead = FALSE, !.failures = 0]
        ELSE ps[i]]

\* proxy.py:133-149
ProxyInit ==
    /\ proxies = <<>>
    /\ dead_proxies = {}
    /\ current_index = 0
    /\ rotation_strategy = "weighted"
    /\ selected = <<>>

\* proxy.py:360-376
add_proxy(key) ==
    /\ proxies' = AddProxy(proxies, key)
    /\ UNCHANGED <<dead_proxies, current_index, rotation_strategy, selected>>
    /\ UNCHANGED not_proxy

CanSucceed(key) ==
    /\ key \in Keys(proxies)
    /\ proxies[IndexOf(proxies, key)].successes < MaxSuccesses

CanFail(key) ==
    /\ key \in Keys(proxies)
    /\ proxies[IndexOf(proxies, key)].failures < MaxFailures

\* proxy.py:79-83, as test_all_proxies calls it on an endpoint of the pool
\* (proxy.py:467)
mark_success(key) ==
    /\ CanSucceed(key)
    /\ proxies' = [proxies EXCEPT ![IndexOf(proxies, key)] = MarkSuccess(@)]
    /\ UNCHANGED <<dead_proxies, current_index, rotation_strategy, selected>>
    /\ UNCHANGED not_proxy

\* proxy.py:86-94, as test_all_proxies calls it on an endpoint of the pool
\* (proxy.py:469)
mark_failure(key) ==
    /\ CanFail(key)
    /\ proxies' = [proxies EXCEPT ![IndexOf(proxies, key)] = MarkFailure(@)]
    /\ UNCHANGED <<dead_proxies, current_index, rotation_strategy, selected>>
    /\ UNCHANGED not_proxy

\* proxy.py:416-419
report_success(key) ==
    /\ CanSucceed(key)
    /\ proxies' = ReportSuccess(proxies, key)
    /\ UNCHANGED <<dead_proxies, current_index, rotation_strategy, selected>>
    /\ UNCHANGED not_proxy

\* proxy.py:421-428
report_failure(key) ==
    /\ CanFail(key)
    /\ LET r == ReportFailure(proxies, dead_proxies, key)
       IN  /\ proxies' = r.proxies
           /\ dead_proxies' = r.dead_proxies
    /\ UNCHANGED <<current_index, rotation_strategy, selected>>
    /\ UNCHANGED not_proxy

\* proxy.py:378-414
get_proxy ==
    /\ \E r \in GetProxy(proxies, rotation_strategy, current_index) :
            /\ selected' = <<r.proxy>>
            /\ current_index' = r.index
    /\ UNCHANGED <<proxies, dead_proxies, rotation_strategy>>
    /\ UNCHANGED not_proxy

\* proxy.py:509-520
reset_dead_proxies ==
    /\ proxies' = ResetDead(proxies)
    /\ dead_proxies' = {}
    /\ UNCHANGED <<current_index, rotation_strategy, selected>>
    /\ UNCHANGED not_proxy

ProxyNext ==
    \/ \E key \in ProxyKeys : add_proxy(key)
    \/ \E key \in ProxyKeys : mark_success(key)
    \/ \E key \in ProxyKeys : mark_failure(key)
    \/ \E key \in ProxyKeys : report_success(key)
    \/ \E key \in ProxyKeys : report_failure(key)
    \/ get_proxy
    \/ reset_dead_proxies

----------------------------------------------------------------------------
(***************************************************************************)
(* Rate-limit handling of the scraper (scraper.py)                         *)
(***************************************************************************)
\* the mandated durations (error.seconds) that the source signals
WaitSeconds == {1, 30}

\* how _reconnect_with_proxy can end: it reconnects, or client.start() raises
\* (after self._current_proxy was set), or client.disconnect() raises (before)
ReconnectOutcomes == {"ok", "start_fails", "disconnect_fails"}

ExtraWait_Uncapped(count) == count * FloodIncrement

\* scraper.py:390
ExtraWait(count) == Min({count * FloodIncrement, FloodCap})

\* scraper.py:391
TotalWait(seconds, count) == seconds + ExtraWait(count)

RotationDue_Always(enabled, manager, count) == enabled /\ manager

\* scraper.py:399
RotationDue(enabled, manager, count) ==
    enabled /\ manager /\ count >= RotationThreshold

\* scraper.py:404
IsNewProxy(new_proxy, current) == new_proxy # NoProxy /\ new_proxy # current

\* scraper.py:408
ReducedWait(total_wait) == Min({total_wait, RotatedWaitCap})

\* scraper.py:48-74, a scraper without a ProxyManager
FloodInit ==
    /\ proxy_manager = FALSE
    /\ proxy_rotation_on_flood = TRUE
    /\ flood_wait_count = 0
    /\ current_proxy = NoProxy
    /\ last_wait = <<>>

\* the handler is awaited by the fetch loop: no second one starts while the
\* first one sleeps
Sleeping == last_wait # <<>> /\ ~last_wait[1].slept

\* scraper.py:384-408, a rate-limit signal without rotation: counted, then
\* the sleep of scraper.py:410 begins
handle_flood_wait_plain(seconds) ==
    /\ ~Sleeping
    /\ flood_wait_count < MaxFloods
    /\ LET count == flood_wait_count + 1
       IN  /\ ~RotationDue(proxy_rotation_on_flood, proxy_manager, count)
           /\ flood_wait_count' = count
           /\ last_wait' = <<[seconds |-> seconds, count |-> count,
                              asked |-> FALSE, returned |-> NoProxy,
                              reconnect |-> "none",
                              total_wait |-> TotalWait(seconds, count),
                              slept |-> FALSE]>>
    /\ UNCHANGED <<proxy_manager, proxy_rotation_on_flood, current_proxy>>
    /\ UNCHANGED proxy_vars
    /\ UNCHANGED not_flood

\* scraper.py:384-408 and 412-441, a rate-limit signal with rotation: the
\* current endpoint is reported, get_proxy is asked, and if it returns another
\* endpoint the scraper reconnects through it; then the sleep begins
handle_flood_wait_rotating(seconds, outcome) ==
    /\ ~Sleeping
    /\ flood_wait_count < MaxFloods
    /\ LET count == flood_wait_count + 1
           reported == IF current_proxy # NoProxy
                       THEN ReportFailure(proxies, dead_proxies, current_proxy)
                       ELSE [proxies |-> proxies, dead_proxies |-> dead_proxies]
       IN  /\ RotationDue(proxy_rotation_on_flood, proxy_manager, count)
           /\ current_proxy # NoProxy => CanFail(current_proxy)
           /\ \E r \in GetProxy(reported.proxies, rotation_strategy, current_index) :
                /\ selected' = <<r.proxy>>
                /\ current_index' = r.index
                /\ IF IsNewProxy(r.proxy, current_proxy)
                   THEN /\ IF outcome = "ok"
                           THEN /\ CanSucceed(r.proxy)
                                /\ proxies' = ReportSuccess(reported.proxies, r.proxy)
                                /\ dead_proxies' = reported.dead_proxies
                                /\ flood_wait_count' = 0
                           ELSE /\ CanFail(r.proxy)
                                /\ LET failed == ReportFailure(reported.proxies,
                                            reported.dead_proxies, r.proxy)
                                   IN  /\ proxies' = failed.proxies
                                       /\ dead_proxies' = failed.dead_proxies
                                /\ flood_wait_count' = count
                        /\ current_proxy' = IF outcome = "disconnect_fails"
                                            THEN current_proxy ELSE r.proxy
                        /\ last_wait' = <<[seconds |-> seconds, count |-> count,
                                asked |-> TRUE, returned |-> r.proxy,
                                reconnect |-> outcome,
                                total_wait |-> ReducedWait(TotalWait(seconds, count)),
                                slept |-> FALSE]>>
                   ELSE /\ outcome = "ok"
                        /\ proxies' = reported.proxies
                        /\ dead_proxies' = reported.dead_proxies
                        /\ flood_wait_count' = count
                        /\ current_proxy' = current_proxy
                        /\ last_wait' = <<[seconds |-> seconds, count |-> count,
                                asked |-> TRUE, returned |-> r.proxy,
                                reconnect |-> "none",
                                total_wait |-> TotalWait(seconds, count),
                                slept |-> FALSE]>>
    /\ UNCHANGED <<proxy_manager, proxy_rotation_on_flood, rotation_strategy>>
    /\ UNCHANGED not_flood

\* scraper.py:384-410
handle_flood_wait(seconds, outcome) ==
    \/ outcome = "ok" /\ handle_flood_wait_plain(seconds)
    \/ handle_flood_wait_rotating(seconds, outcome)

\* scraper.py:410, asyncio.sleep(total_wait) returns
sleep_ends ==
    /\ Sleeping
    /\ last_wait' = <<[last_wait[1] EXCEPT !.slept = TRUE]>>
    /\ UNCHANGED <<proxy_manager, proxy_rotation_on_flood, flood_wait_count,
                   current_proxy>>
    /\ UNCHANGED proxy_vars
    /\ UNCHANGED not_flood

\* scraper.py:476-479
set_proxy_rotation(enabled) ==
    /\ proxy_rotation_on_flood' = enabled
    /\ UNCHANGED <<proxy_manager, flood_wait_count, current_proxy, last_wait>>
    /\ UNCHANGED proxy_vars
    /\ UNCHANGED not_flood

FloodNext ==
    \/ \E seconds \in WaitSeconds : handle_flood_wait_plain(seconds)
    \/ \E seconds \in WaitSeconds, outcome \in ReconnectOutcomes :
            handle_flood_wait_rotating(seconds, outcome)
    \/ sleep_ends
    \/ \E enabled \in BOOLEAN : set_proxy_rotation(enabled)

----------------------------------------------------------------------------
(***************************************************************************)
(* Exceptions in the fetch loop (scraper.py:236-300)                       *)
(***************************************************************************)
\* what can be raised: telethon's FloodWaitError, or any other Exception
Raised == {"FloodWaitError", "Exception"}

\* where the handling of one message can raise: in _process_message
\* (scraper.py:250, before the message is appended to the batch) or in
\* media_downloader.queue_download (scraper.py:257-260, after the append and
\* before the yield; only with download_media)
RaisePoints == {"process", "download"}

\* scraper.py:272-274 and 384-410: `except FloodWaitError` awaits the handler,
\* which counts the signal and sleeps (a scraper without rotation)
FloodHandled(seconds) ==
    /\ ~RotationDue(proxy_rotation_on_flood, proxy_manager, flood_wait_count + 1)
    /\ flood_wait_count < MaxFloods
    /\ flood_wait_count' = flood_wait_count + 1
    /\ last_wait' = <<[seconds |-> seconds, count |-> flood_wait_count + 1,
                       asked |-> FALSE, returned |-> NoProxy,
                       reconnect |-> "none",
                       total_wait |-> TotalWait(seconds, flood_wait_count + 1),
                       slept |-> TRUE]>>
    /\ UNCHANGED <<proxy_manager, proxy_rotation_on_flood, current_proxy>>

\* scraper.py:249-278: the handling of the message raises inside the `try` of
\* the loop body; both `except` clauses end in `continue`
message_raises(kind, where, seconds) ==
    /\ pc = "fetch"
    /\ pending # <<>>
    /\ ~StopSeen
    /\ pending' = Tail(pending)
    /\ IF where = "process"
       THEN UNCHANGED <<batch, messages_scraped>>
       ELSE /\ batch' = Append(batch, Head(pending))
            /\ messages_scraped' = messages_scraped + 1
    /\ IF kind = "FloodWaitError"
       THEN FloodHandled(seconds)
       ELSE UNCHANGED flood_vars
    /\ UNCHANGED <<channel, scrape_state, parquet_files, write_buffer, batch_size,
                   pc, is_running, loop_exit, calls>>
    /\ UNCHANGED <<tracker_vars, metrics_vars, proxy_vars, other_vars>>

\* scraper.py:236-244 and 288-300: client.iter_messages raises while it
\* fetches the next message or page.  The `async for` is outside the `try` of
\* the loop body: the exception reaches `except Exception` of the function,
\* which raises it again, and `finally` clears _is_running.  The batch of the
\* generator is dropped unsaved.
fetch_raises(kind) ==
    /\ pc = "fetch"
    /\ pc' = "idle"
    /\ pending' = <<>>
    /\ batch' = <<>>
    /\ is_running' = FALSE
    /\ loop_exit' = "no"
    /\ calls' = ThisCall("end", kind)
    /\ UNCHANGED <<channel, scrape_state, parquet_files, write_buffer, batch_size,
                   messages_scraped>>
    /\ UNCHANGED not_fetch

FaultsNext ==
    \/ \E resume \in BOOLEAN, min_id \in 0..MaxMinId :
            scrape_channel(resume, min_id)
    \/ next_message
    \/ iteration_ends
    \/ save_messages
    \/ update_scrape_state
    \/ stop
    \/ \E kind \in Raised, where \in RaisePoints, seconds \in WaitSeconds :
            message_raises(kind, where, seconds)
    \/ \E kind \in Raised : fetch_raises(kind)

----------------------------------------------------------------------------
(***************************************************************************)
(* TelegramScraper.connect (scraper.py:76-138)                             *)
(***************************************************************************)
\* scraper.py:48-74, a scraper that has not connected yet
ConnectInit == connection = <<>>

\* a handshake (client.start, get_me) is under way
Handshaking == connection # <<>> /\ connection[1].status = "handshake"

\* scraper.py:86, 118, 123: "if proxy and self.proxy_manager"
ThroughPool(proxy) == proxy # NoProxy /\ proxy_manager

\* scraper.py:85-87: the endpoint a connect call without an argument uses,
\* with the _current_index the selection leaves
FirstProxy ==
    IF proxy_manager
    THEN GetProxy(proxies, rotation_strategy, current_index)
    ELSE {[proxy |-> NoProxy, index |-> current_index]}

\* scraper.py:129, "if new_proxy and new_proxy != proxy"
RetryWith(new_proxy, proxy) == new_proxy # NoProxy /\ new_proxy # proxy

\* scraper.py:76-108, connect(): the endpoint is chosen, _current_proxy is
\* set and the client is built; the handshake is awaited
connect ==
    /\ ~Handshaking
    /\ \E r \in FirstProxy :
            /\ current_proxy' = r.proxy
            /\ current_index' = r.index
            /\ selected' = IF proxy_manager THEN <<r.proxy>> ELSE selected
            /\ connection' = <<[attempts |-> <<r.proxy>>,
                                status |-> "handshake"]>>
    /\ UNCHANGED <<proxies, dead_proxies, rotation_strategy>>
    /\ UNCHANGED <<proxy_manager, proxy_rotation_on_flood, flood_wait_count,
                   last_wait>>
    /\ UNCHANGED not_connect

\* scraper.py:110-119, 134-138: start and get_me return
handshake_succeeds ==
    /\ Handshaking
    /\ ThroughPool(current_proxy) => CanSucceed(current_proxy)
    /\ proxies' = IF ThroughPool(current_proxy)
                  THEN ReportSuccess(proxies, current_proxy)
                  ELSE proxies
    /\ connection' = <<[connection[1] EXCEPT !.status = "connected"]>>
    /\ UNCHANGED <<dead_proxies, current_index, rotation_strategy, selected>>
    /\ UNCHANGED flood_vars
    /\ UNCHANGED not_connect

\* scraper.py:121-134: start or get_me raises. The failure is reported, a
\* second selection is made, and connect calls itself with the endpoint
\* selected when it is another one; otherwise the exception is re-raised
handshake_fails ==
    /\ Handshaking
    /\ IF ThroughPool(current_proxy)
       THEN /\ CanFail(current_proxy)
            /\ LET r == ReportFailure(proxies, dead_proxies, current_proxy)
               IN  /\ proxies' = r.proxies
                   /\ dead_proxies' = r.dead_proxies
                   /\ \E g \in GetProxy(r.proxies, rotation_strategy,
                                        current_index) :
                        /\ current_index' = g.index
                        /\ selected' = <<g.proxy>>
                        /\ IF RetryWith(g.proxy, current_proxy)
                           THEN /\ current_proxy' = g.proxy
                                /\ connection' =
                                    <<[connection[1] EXCEPT
                                        !.attempts = Append(@, g.proxy)]>>
                           ELSE /\ current_proxy' = current_proxy
                                /\ connection' =
                                    <<[connection[1] EXCEPT
                                        !.status = "raised"]>>
       ELSE /\ connection' = <<[connection[1] EXCEPT !.status = "raised"]>>
            /\ UNCHANGED <<proxies, dead_proxies, current_index, selected,
                           current_proxy>>
    /\ UNCHANGED rotation_strategy
    /\ UNCHANGED <<proxy_manager, proxy_rotation_on_flood, flood_wait_count,
                   last_wait>>
    /\ UNCHANGED not_connect

ConnectNext ==
    \/ connect
    \/ handshake_succeeds
    \/ handshake_fails

----------------------------------------------------------------------------
(***************************************************************************)
(* MediaDownloader (media.py): the queue, the workers and the semaphore    *)
(***************************************************************************)
\* media.py:62, asyncio.Queue(): no maxsize
Full(queue) == QueueMaxsize > 0 /\ Len(queue) >= QueueMaxsize

\* the downloads in progress: the workers inside `async with self._semaphore`
Downloading == {w \in 1..Len(workers) : workers[w] = "download"}

SemaphoreFree_Unbounded == TRUE

\* media.py:70 and 129: the semaphore was created with max_concurrent permits
\* and each download in progress holds one
SemaphoreFree == Cardinality(Downloading) < max_concurrent

\* media.py:50-70, a MediaDownloader that has not been used
NewDownloader ==
    /\ media_queue = <<>>
    /\ unfinished_tasks = 0
    /\ media_running = FALSE
    /\ workers = <<>>
    /\ worker_list = {}
    /\ waiter = [pc |-> "idle", gathered |-> {}, calls |-> 0]

\* scraper.py:134-138 and config.py:37, the downloader of a scraper with the
\* default configuration
MediaInit ==
    /\ max_concurrent = DefaultMaxConcurrent
    /\ NewDownloader

\* media.py:85-91, stop_workers up to its gather: _is_running is cleared and
\* max_concurrent None items are put (put on a queue without maxsize does not
\* suspend; each put counts as an unfinished task of the queue)
Sentinels == [i \in 1..max_concurrent |-> None]

\* media.py:73-82, start_workers: max_concurrent new tasks replace _workers
NewWorkers == (Len(workers) + 1)..(Len(workers) + max_concurrent)

\* media.py:99-113, queue_download of a message with media, called by the
\* fetch stream when it is not itself inside wait_completion
queue_download ==
    /\ waiter.pc \in {"idle", "stopping"}
    /\ unfinished_tasks < MaxUnfinished
    /\ ~Full(media_queue)
    /\ IF media_running
       THEN UNCHANGED <<media_running, workers, worker_list>>
       ELSE /\ Len(workers) + max_concurrent <= MaxWorkerTasks
            /\ media_running' = TRUE
            /\ workers' = workers \o [i \in 1..max_concurrent |-> "test"]
            /\ worker_list' = NewWorkers
    /\ media_queue' = Append(media_queue, "task")
    /\ unfinished_tasks' = unfinished_tasks + 1
    /\ UNCHANGED <<max_concurrent, waiter>>
    /\ UNCHANGED not_media

\* media.py:289-291, wait_completion up to `await self._queue.join()`
wait_completion ==
    /\ waiter.pc = "idle"
    /\ waiter.calls < MaxWaits
    /\ waiter' = [waiter EXCEPT !.pc = "join", !.calls = @ + 1]
    /\ UNCHANGED <<max_concurrent, media_queue, unfinished_tasks, media_running,
                   workers, worker_list>>
    /\ UNCHANGED not_media

\* media.py:85-97, stop_workers from its first line to the gather (or to its
\* return when _workers is empty)
StopWorkers(gathering) ==
    /\ media_running' = FALSE
    /\ media_queue' = media_queue \o Sentinels
    /\ unfinished_tasks' = unfinished_tasks + max_concurrent
    /\ waiter' = IF worker_list # {}
                 THEN [waiter EXCEPT !.pc = gathering, !.gathered = worker_list]
                 ELSE [waiter EXCEPT !.pc = "idle"]
    /\ UNCHANGED <<max_concurrent, workers, worker_list>>
    /\ UNCHANGED not_media

\* media.py:291-292: join returns when the queue has no unfinished task, and
\* stop_workers is entered
join_returns ==
    /\ waiter.pc = "join"
    /\ unfinished_tasks = 0
    /\ StopWorkers("gather")

\* media.py:85-97, stop_workers called by the owner of the downloader while
\* nobody is inside wait_completion
stop_workers ==
    /\ waiter.pc = "idle"
    /\ unfinished_tasks + max_concurrent <= MaxUnfinished
    /\ StopWorkers("stopping")

\* media.py:93-97: the gather returns when each task it was given has ended,
\* and `self._workers = []`
gather_returns ==
    /\ waiter.pc \in {"gather", "stopping"}
    /\ \A w \in waiter.gathered : workers[w] = "exited"
    /\ worker_list' = {}
    /\ waiter' = [waiter EXCEPT !.pc = "idle", !.gathered = {}]
    /\ UNCHANGED <<max_concurrent, media_queue, unfinished_tasks, media_running,
                   workers>>
    /\ UNCHANGED not_media

\* media.py:119, the test of `while self._is_running`: by a new task, after a
\* download and after a timeout of the get
worker_tests(w) ==
    /\ workers[w] = "test"
    /\ workers' = [workers EXCEPT ![w] = IF media_running THEN "get" ELSE "exited"]
    /\ UNCHANGED <<max_concurrent, media_queue, unfinished_tasks, media_running,
                   worker_list, waiter>>
    /\ UNCHANGED not_media

\* media.py:121-127: the get returns an item; None ends the worker (without
\* task_done), a task is taken to the semaphore
worker_gets(w) ==
    /\ workers[w] = "get"
    /\ media_queue # <<>>
    /\ media_queue' = Tail(media_queue)
    /\ workers' = [workers EXCEPT
                    ![w] = IF Head(media_queue) = None THEN "exited" ELSE "acquire"]
    /\ UNCHANGED <<max_concurrent, unfinished_tasks, media_running, worker_list,
                   waiter>>
    /\ UNCHANGED not_media

\* media.py:121-124, 134-135: no item came within the second that the get
\* is given: TimeoutError, `continue`
worker_times_out(w) ==
    /\ workers[w] = "get"
    /\ media_queue = <<>>
    /\ workers' = [workers EXCEPT ![w] = "test"]
    /\ UNCHANGED <<max_concurrent, media_queue, unfinished_tasks, media_running,
                   worker_list, waiter>>
    /\ UNCHANGED not_media

\* media.py:129, `async with self._semaphore` is entered
worker_acquires(w) ==
    /\ workers[w] = "acquire"
    /\ SemaphoreFree
    /\ workers' = [workers EXCEPT ![w] = "download"]
    /\ UNCHANGED <<max_concurrent, media_queue, unfinished_tasks, media_running,
                   worker_list, waiter>>
    /\ UNCHANGED not_media

\* media.py:129-132: _download_with_retry returns (it has succeeded or used
\* up max_retries attempts, media.py:140-165), the semaphore is released and
\* task_done is called
worker_finishes(w) ==
    /\ workers[w] = "download"
    /\ unfinished_tasks' = unfinished_tasks - 1
    /\ workers' = [workers EXCEPT ![w] = "test"]
    /\ UNCHANGED <<max_concurrent, media_queue, media_running, worker_list,
                   waiter>>
    /\ UNCHANGED not_media

\* one step of the worker task w
worker(w) ==
    \/ worker_tests(w)
    \/ worker_gets(w)
    \/ worker_times_out(w)
    \/ worker_acquires(w)
    \/ worker_finishes(w)

\* the downloader as scrape_channel uses it (scraper.py:256-260, 284-286):
\* downloads are queued, then wait_completion is awaited, run after run
ScrapeMediaNext ==
    \/ queue_download
    \/ wait_completion
    \/ join_returns
    \/ gather_returns
    \/ \E w \in 1..Len(workers) : worker_tests(w)
    \/ \E w \in 1..Len(workers) : worker_gets(w)
    \/ \E w \in 1..Len(workers) : worker_times_out(w)
    \/ \E w \in 1..Len(workers) : worker_acquires(w)
    \/ \E w \in 1..Len(workers) : worker_finishes(w)

\* the same, with an owner that may also stop the workers
MediaNext ==
    \/ ScrapeMediaNext
    \/ stop_workers

----------------------------------------------------------------------------
(***************************************************************************)
(* WebHTMLBackend.scrape_channel (backends/web_backend.py)                 *)
(***************************************************************************)
\* a message without an id: ParsedMessage.message_id is None
\* (web_backend.py:295-300), and so is a timestamp that was not parsed
NoId == 0

\* texts, with and without the separator of the fingerprint
WebTexts == {<<"a">>, <<"a", "|", "1">>}

WebTimestamps == {NoId, 1}

\* web_backend.py:273-334, _parse_messages: the messages a page can hold
WebMessages ==
    [text : WebTexts, timestamp : WebTimestamps, message_id : 0..MaxWebId]

\* the pages a request can return: the messages parsed from it, in order
\* (any messages: the server decides, and it may ignore ?before=)
Pages == UNION {[1..n -> WebMessages] : n \in 1..MaxPage}

\* the limit argument: <<>> for None, or <<n>>
WebLimits == {<<>>} \cup {<<n>> : n \in 0..MaxLimit}

Digits == <<"1", "2", "3", "4", "5", "6", "7", "8", "9">>

\* str() of an Optional[int] as the f-string formats it
Str(n) == IF n = NoId THEN <<"N", "o", "n", "e">> ELSE <<Digits[n]>>

MessageHash_IdOnly(msg) == Str(msg.message_id)

\* web_backend.py:416-419, _message_hash: the digest of
\* f"{text}|{timestamp}|{message_id}" (md5 is taken to have no collisions on
\* these contents: the fingerprint is the content)
MessageHash(msg) ==
    msg.text \o <<"|">> \o Str(msg.timestamp) \o <<"|">> \o Str(msg.message_id)

\* web_backend.py:228, `if limit and self._messages_scraped >= limit`
LimitReached(limit, scraped) ==
    limit # <<>> /\ limit[1] # 0 /\ scraped >= limit[1]

\* web_backend.py:209-212: the oldest id of the page so far, with this message
OldestWith(oldest_id, msg) ==
    IF msg.message_id # NoId
            /\ (oldest_id = NoId \/ msg.message_id < oldest_id)
    THEN msg.message_id
    ELSE oldest_id

\* web_backend.py:202-230, the `for msg in messages` loop from the i-th
\* message on: st holds seen_ids, oldest_id, the bag of the items yielded,
\* _messages_scraped, and whether the generator has returned
RECURSIVE ForMessages(_, _, _, _)
ForMessages(messages, i, limit, st) ==
    IF i > Len(messages) \/ st.returned
    THEN st
    ELSE LET msg == messages[i]
         IN  IF MessageHash(msg) \in st.seen_ids
             THEN ForMessages(messages, i + 1, limit, st)
             ELSE ForMessages(messages, i + 1, limit,
                    [seen_ids |-> st.seen_ids \cup {MessageHash(msg)},
                     oldest_id |-> OldestWith(st.oldest_id, msg),
                     yielded |-> st.yielded (+) SetToBag({msg}),
                     scraped |-> st.scraped + 1,
                     returned |-> LimitReached(limit, st.scraped + 1)])

PageAgain_Always(oldest_id) == TRUE

\* web_backend.py:233-236, `if oldest_id: before_id = oldest_id else: break`
PageAgain(oldest_id) == oldest_id # NoId

\* the requests of one call are counted up to MaxRequests, which is more
\* than a call can make: each request but the last one yields a new message
MaxRequests == Cardinality(WebMessages) + 2

\* web_backend.py:110-128: a backend that has not scraped yet
WebInit ==
    /\ web_pc = "idle"
    /\ web_limit = <<>>
    /\ before_id = NoId
    /\ seen_ids = {}
    /\ web_yielded = EmptyBag
    /\ web_messages_scraped = 0
    /\ web_requests = 0

\* web_backend.py:154-181: the call, up to `while True`
web_scrape_channel(limit) ==
    /\ web_pc \in {"idle", "done"}
    /\ web_pc' = "loop"
    /\ web_limit' = limit
    /\ before_id' = NoId
    /\ seen_ids' = {}
    /\ web_yielded' = EmptyBag
    /\ web_messages_scraped' = 0
    /\ web_requests' = 0
    /\ UNCHANGED not_web

\* web_backend.py:183-198: _fetch_page returns None (404, or max_retries
\* failed attempts), or no message is parsed from the page: break
web_no_messages ==
    /\ web_pc = "loop"
    /\ web_requests < MaxRequests
    /\ web_requests' = web_requests + 1
    /\ web_pc' = "done"
    /\ UNCHANGED <<web_limit, before_id, seen_ids, web_yielded,
                   web_messages_scraped>>
    /\ UNCHANGED not_web

\* web_backend.py:183-241: one iteration of `while True` over a page with
\* messages; the generator returns at the limit, goes on with
\* before_id = oldest_id, or breaks when the page gave no oldest id
web_page(messages) ==
    /\ web_pc = "loop"
    /\ web_requests < MaxRequests
    /\ web_requests' = web_requests + 1
    /\ LET st == ForMessages(messages, 1, web_limit,
                    [seen_ids |-> seen_ids, oldest_id |-> NoId,
                     yielded |-> web_yielded,
                     scraped |-> web_messages_scraped, returned |-> FALSE])
       IN  /\ seen_ids' = st.seen_ids
           /\ web_yielded' = st.yielded
           /\ web_messages_scraped' = st.scraped
           /\ IF st.returned
              THEN web_pc' = "done" /\ UNCHANGED before_id
              ELSE IF PageAgain(st.oldest_id)
              THEN web_pc' = "loop" /\ before_id' = st.oldest_id
              ELSE web_pc' = "done" /\ UNCHANGED before_id
    /\ UNCHANGED web_limit
    /\ UNCHANGED not_web

\* one request of the paging loop and what follows from its answer
WebIteration ==
    \/ web_no_messages
    \/ \E messages \in Pages : web_page(messages)

WebNext ==
    \/ \E limit \in WebLimits : web_scrape_channel(limit)
    \/ WebIteration

----------------------------------------------------------------------------
(***************************************************************************)
(* Backends and their capability declarations (backends/)                  *)
(***************************************************************************)
\* base.py:15-19, the backends that exist (no RSS backend is implemented)
BackendTypes == {"telethon", "web"}

\* telethon_backend.py:27-50 and web_backend.py:52-72: the declarations, as
\* far as they concern the tracker
Capabilities(b) ==
    IF b = "telethon"
    THEN [message_id_reliable |-> TRUE, deletion_detection |-> TRUE,
          bias_tracking_supported |-> TRUE]
    ELSE [message_id_reliable |-> FALSE, deletion_detection |-> FALSE,
          bias_tracking_supported |-> FALSE]

\* scraper.py:48-74: TelegramScraper reads the API through telethon
AdapterInit == backend = "telethon"


----------------------------------------------------------------------------
(***************************************************************************)
(* Specifications                                                          *)
(***************************************************************************)
\* the components a specification does not exercise stay as constructed
OtherInit ==
    /\ ConnectInit
    /\ MediaInit
    /\ WebInit
    /\ AdapterInit

Init ==
    /\ TrackerInit
    /\ MetricsInit
    /\ NoFetchInit
    /\ ProxyInit
    /\ FloodInit
    /\ OtherInit

\* the continuity tracker: the operations on its store and its runs
SpecTracker == Init /\ [][TrackerNext]_vars

\* BiasMetrics objects of any counts up to MaxCount, or as compute_metrics
\* returns them, and their properties
\* every content of the message_continuity table over the ids 0..MaxId
Tables ==
    UNION {[D -> [observed : {0, 1}, status : MessageStatus]] : D \in SUBSET Ids}

AnyMetricsInit ==
    /\ TrackerInit
    /\ NoFetchInit
    /\ ProxyInit
    /\ FloodInit
    /\ OtherInit
    /\ metrics \in [DOMAIN DefaultMetrics -> 0..MaxCount]
                    \cup {ComputeMetrics(table) : table \in Tables}
    /\ rates = <<>>

MetricsNext == ReadRates

SpecMetrics == AnyMetricsInit /\ [][MetricsNext]_vars

\* the run manifest of the tracker: runs are started and ended, and the
\* events of a run are counted
RunsNext ==
    \/ NewTracker
    \/ start_run
    \/ end_run
    \/ \E id \in Ids, text \in Texts, check_edit \in BOOLEAN :
            record_message(id, text, check_edit)
    \/ record_flood_wait
    \/ record_proxy_rotation
    \/ record_error

SpecRuns == Init /\ [][RunsNext]_vars

\* one tracker instance recording messages and scanning id ranges for gaps,
\* over the ids 0..MaxGapId
GapsNext ==
    \/ \E id \in GapIds, text \in Texts, check_edit \in BOOLEAN :
            record_message(id, text, check_edit)
    \/ \E lo \in GapIds, hi \in GapIds : detect_gaps(lo, hi)
    \/ compute_metrics

SpecGaps == Init /\ [][GapsNext]_vars

\* one tracker instance that is given the items of a backend of either kind:
\* their ids are recorded and ranges are scanned for gaps (detect_gaps
\* calls record_gap for each id it finds missing).  BiasTracker has no
\* parameter and no field for the backend or its capabilities (bias.py:388,
\* 462, 484, 516), so that no operation reads it.
GatedInit ==
    /\ TrackerInit
    /\ MetricsInit
    /\ NoFetchInit
    /\ ProxyInit
    /\ FloodInit
    /\ ConnectInit
    /\ MediaInit
    /\ WebInit
    /\ backend \in BackendTypes

GatedNext ==
    \/ \E id \in GapIds, text \in Texts, check_edit \in BOOLEAN :
            record_message(id, text, check_edit)
    \/ \E lo \in GapIds, hi \in GapIds : detect_gaps(lo, hi)

SpecGated == GatedInit /\ [][GatedNext]_vars

\* a ProxyManager of any of the three strategies: endpoints are added, used,
\* tested, selected and reset
PoolInit ==
    /\ TrackerInit
    /\ MetricsInit
    /\ NoFetchInit
    /\ FloodInit
    /\ OtherInit
    /\ proxies = <<>>
    /\ dead_proxies = {}
    /\ current_index = 0
    /\ rotation_strategy \in RotationStrategies
    /\ selected = <<>>

SpecProxy == PoolInit /\ [][ProxyNext]_vars

\* the pools a scraper can be given: endpoints 1..n, not yet used
FreshPools == {[i \in 1..n |-> NewProxy(i)] : n \in 0..MaxProxies}

\* a connected scraper with or without a ProxyManager, receiving rate-limit
\* signals
FloodWaitInit ==
    /\ TrackerInit
    /\ MetricsInit
    /\ NoFetchInit
    /\ proxy_manager \in BOOLEAN
    /\ proxies \in IF proxy_manager THEN FreshPools ELSE {<<>>}
    /\ dead_proxies = {}
    /\ current_index = 0
    /\ rotation_strategy \in RotationStrategies
    /\ selected = <<>>
    /\ proxy_rotation_on_flood = TRUE
    /\ flood_wait_count = 0
    /\ current_proxy \in {NoProxy} \cup Keys(proxies)
    /\ last_wait = <<>>
    /\ OtherInit

SpecFlood == FloodWaitInit /\ [][FloodNext]_vars

\* a scraper with or without a ProxyManager over a pool of unused endpoints,
\* connecting any number of times; each handshake succeeds or fails
ConnectingInit ==
    /\ TrackerInit
    /\ MetricsInit
    /\ NoFetchInit
    /\ proxy_manager \in BOOLEAN
    /\ proxies \in IF proxy_manager THEN FreshPools ELSE {<<>>}
    /\ dead_proxies = {}
    /\ current_index = 0
    /\ rotation_strategy \in RotationStrategies
    /\ selected = <<>>
    /\ proxy_rotation_on_flood = TRUE
    /\ flood_wait_count = 0
    /\ current_proxy = NoProxy
    /\ last_wait = <<>>
    /\ ConnectInit
    /\ MediaInit
    /\ WebInit
    /\ AdapterInit

SpecConnect == ConnectingInit /\ [][ConnectNext]_vars

\* a MediaDownloader of 1..MaxConcurrent parallel downloads
DownloaderInit ==
    /\ TrackerInit
    /\ MetricsInit
    /\ NoFetchInit
    /\ ProxyInit
    /\ FloodInit
    /\ ConnectInit
    /\ WebInit
    /\ AdapterInit
    /\ max_concurrent \in 1..MaxConcurrent
    /\ NewDownloader

\* the downloader used by a fetch stream and stopped by its owner at any time
SpecMedia == DownloaderInit /\ [][MediaNext]_vars

\* the downloader as successive scrape_channel runs use it.  The event loop
\* runs every task that can run: each worker task, and the caller of
\* wait_completion when join or gather can return
SpecMediaFair ==
    /\ DownloaderInit
    /\ [][ScrapeMediaNext]_vars
    /\ \A w \in 1..MaxWorkerTasks : WF_vars(w <= Len(workers) /\ worker(w))
    /\ WF_vars(join_returns)
    /\ WF_vars(gather_returns)

\* a connected WebHTMLBackend whose scrape_channel is called any number of
\* times, with any limit, against a server that answers each request with any
\* page over WebMessages, or with none
SpecWeb == Init /\ [][WebNext]_vars

\* the same, with the consumer iterating the generator to its end: each
\* request is answered (_fetch_page makes at most max_retries attempts and
\* returns) and the page it returned is consumed
SpecWebFair == SpecWeb /\ WF_vars(WebIteration)

\* the fetch loop over the storage manager, with stops and process restarts
ScrapeInit ==
    /\ TrackerInit
    /\ MetricsInit
    /\ FetchInit
    /\ ProxyInit
    /\ FloodInit
    /\ OtherInit

SpecFetch == ScrapeInit /\ [][FetchNext]_vars

\* the fetch loop of one process, with stops and with exceptions raised by
\* the adapter and by the handling of a message
SpecFaults == ScrapeInit /\ [][FaultsNext]_vars

----------------------------------------------------------------------------
(***************************************************************************)
(* Properties of the continuity tracker                                    *)
(***************************************************************************)
\* the rows of message_status_history of one key, in insertion order
HistoryOf(history, id) == SelectSeq(history, LAMBDA e : e.message_id = id)

\* a call appended exactly this one row
Appended(history, history2, entry) == history2 = Append(history, entry)

\* C1: for every key whose ContinuityRecord has status observed, a record_gap
\* call on that key, whatever status argument it carries, leaves the record
\* with status deleted (never unknown).
C1_GapOnObservedGivesDeleted ==
    [][\A id \in Ids, status \in MessageStatus :
          (/\ StatusOf(message_continuity, id) = "observed"
           /\ record_gap(id, status))
          => StatusOf(message_continuity', id) = "deleted"]_vars

\* C1, witness: a key that was observed (observed = 1) and never passed to
\* record_deletion (no history row at all) stands at deleted: a gap report
\* found it at observed and turned it to deleted.
C1_Witness ==
    \E id \in DOMAIN message_continuity :
        /\ message_continuity[id].observed = 1
        /\ message_continuity[id].status = "deleted"
        /\ message_status_history = <<>>

\* C2: a key on which record_message has been called (its row has
\* observed = 1) is never left with status unknown by later record_gap,
\* detect_gaps and record_deletion calls.
C2_SeenKeyNeverUnknown ==
    \A id \in DOMAIN message_continuity :
        message_continuity[id].observed = 1
            => message_continuity[id].status # "unknown"

\* the last row that record_message wrote for the key (status observed or
\* edited): the preceding recorded observation, <<>> when there is none
LastRecorded(history, id) ==
    LET rows == SelectSeq(HistoryOf(history, id),
                          LAMBDA e : e.status \in {"observed", "edited"})
    IN  IF rows = <<>> THEN <<>> ELSE <<rows[Len(rows)]>>

\* C7: edit detection determinism.  For a key with a preceding recorded
\* observation and a message that has text: a record_message whose text
\* equals the text of the preceding observation appends no edited row and
\* does not set the status to edited; one whose text differs appends exactly
\* one edited row and sets the status to edited.
C7_EditDetectionDeterminism ==
    [][\A id \in Ids, text \in Texts \ {""} :
          (/\ LastRecorded(message_status_history, id) # <<>>
           /\ record_message(id, text, TRUE))
          => IF LastRecorded(message_status_history, id)[1].text_checksum
                    = Checksum(text)
             THEN /\ ~Appended(message_status_history, message_status_history',
                               HistoryEntry(id, "edited", Checksum(text)))
                  /\ StatusOf(message_continuity', id) # "edited"
             ELSE /\ Appended(message_status_history, message_status_history',
                              HistoryEntry(id, "edited", Checksum(text)))
                  /\ StatusOf(message_continuity', id) = "edited"]_vars

C9_HistoryAppendOnly ==
    [][IsPrefix(message_status_history, message_status_history')]_vars

\* C9, witness: record_message (an observed and an edited row) and
\* record_deletion (a deleted row) have all written to the history.
C9_Witness ==
    /\ Len(message_status_history) = MaxHist
    /\ \E i \in 1..Len(message_status_history) :
            message_status_history[i].status = "edited"
    /\ \E i \in 1..Len(message_status_history) :
            message_status_history[i].status = "deleted"

\* the counters of a manifest
Counters == {"messages_collected", "messages_skipped", "errors_encountered",
             "flood_waits", "proxy_rotations"}

\* the step leaves the tracker as it was
NoTrackerChange == UNCHANGED tracker_vars

\* the step adds 1 to one counter of the current manifest and changes no other
\* field of it, and nothing else of the tracker
OnlyCounterBumped(counter) ==
    /\ current_run # <<>>
    /\ current_run' # <<>>
    /\ \A f \in DOMAIN current_run[1] :
          current_run'[1][f] = IF f = counter THEN current_run[1][f] + 1
                                              ELSE current_run[1][f]
    /\ UNCHANGED <<message_continuity, message_status_history, scrape_runs,
                   manifest_files, observed_ids, next_run_id>>

\* C17: with no active run, record_flood_wait, record_proxy_rotation and
\* record_error change nothing; with an active run each adds exactly 1 to its
\* own counter of the current manifest (flood_waits, proxy_rotations,
\* errors_encountered) and leaves every other counter and field unchanged.
C17_CountersFrame ==
    [][/\ record_flood_wait =>
             IF current_run = <<>> THEN NoTrackerChange
                                   ELSE OnlyCounterBumped("flood_waits")
       /\ record_proxy_rotation =>
             IF current_run = <<>> THEN NoTrackerChange
                                   ELSE OnlyCounterBumped("proxy_rotations")
       /\ record_error =>
             IF current_run = <<>> THEN NoTrackerChange
                                   ELSE OnlyCounterBumped("errors_encountered")]_vars

\* C17, witness: in one run each of the three events was counted, a different
\* number of times, while a message was collected.
C17_Witness ==
    /\ current_run # <<>>
    /\ current_run[1].flood_waits = 2
    /\ current_run[1].proxy_rotations = 1
    /\ current_run[1].errors_encountered = 0
    /\ current_run[1].messages_collected = 1
    /\ current_run[1].messages_skipped = 0

\* C18: end_run on an active run stores the manifest, with its end time set,
\* under its run_id in scrape_runs and as a manifest file, clears the current
\* run and returns that manifest; end_run with no active run returns None and
\* stores nothing (so the second of two end_run calls in a row stores nothing).
C18_EndRun ==
    [][end_run =>
          IF current_run = <<>>
          THEN /\ EndRunResult(current_run) = None
               /\ UNCHANGED <<scrape_runs, manifest_files, current_run>>
          ELSE LET run == current_run[1]
                   out == EndRunResult(current_run)
               IN  /\ out = [run EXCEPT !.ended = TRUE]
                   /\ ~run.ended
                   /\ DOMAIN scrape_runs' = DOMAIN scrape_runs \cup {run.run_id}
                   /\ scrape_runs'[run.run_id] = out
                   /\ \A r \in DOMAIN scrape_runs : scrape_runs'[r] = scrape_runs[r]
                   /\ DOMAIN manifest_files' = DOMAIN manifest_files \cup {run.run_id}
                   /\ manifest_files'[run.run_id] = out
                   /\ current_run' = <<>>]_vars

\* C18, witness: a run in which events were counted has been ended: its
\* manifest is stored, ended, in both places and no run is current.
C18_Witness ==
    /\ current_run = <<>>
    /\ \E r \in DOMAIN scrape_runs :
          /\ scrape_runs[r].ended
          /\ scrape_runs[r].flood_waits > 0
          /\ scrape_runs[r].messages_collected > 0
          /\ r \in DOMAIN manifest_files
          /\ manifest_files[r] = scrape_runs[r]

\* the ratio q is the decimal tenths/10 (2/10 == 0.2 in floating point)
IsTenths(q, tenths) == ~q.raised /\ q.num * 10 = tenths * q.den

\* the table after record_message for each id of O on an empty store
ObservedOnly(O) == [id \in O |-> [observed |-> 1, status |-> "observed"]]

\* C11: for an id range [a, b] with 1 <= a <= b, when the store holds exactly
\* the rows of the observed ids O of this tracker (all inside the range, as
\* record_message left them), what compute_metrics returns after
\* detect_gaps(a, b) has expected_message_count = b - a + 1,
\* observed_message_count = |O| and gap_count = (b - a + 1) - |O|.  For the
\* range [100, 109] with the observed ids {100,101,102,104,105,107,108,109}
\* this is gap_count 2, gap_ratio 0.2, coverage_rate 0.8.
C11_GapScanCounts ==
    /\ LET O == {100, 101, 102, 104, 105, 107, 108, 109}
           m == ComputeMetrics(DetectGapsStore(ObservedOnly(O),
                                               GapSet(O, 100, 109)))
       IN  /\ m.gap_count = 2
           /\ IsTenths(gap_ratio(m), 2)
           /\ IsTenths(coverage_rate(m), 8)
    /\ [][\A a \in GapIds, b \in GapIds :
            (/\ 1 <= a /\ a <= b
             /\ observed_ids \subseteq a..b
             /\ DOMAIN message_continuity = observed_ids
             /\ \A id \in observed_ids :
                    message_continuity[id].status \in {"observed", "edited"}
             /\ detect_gaps(a, b))
            => LET m == ComputeMetrics(message_continuity')
               IN  /\ m.expected_message_count = b - a + 1
                   /\ m.observed_message_count = Cardinality(observed_ids)
                   /\ m.gap_count = (b - a + 1) - Cardinality(observed_ids)]_vars

\* C11, witness: ids 1 and MaxGapId were recorded and a scan of
\* [1, MaxGapId] has recorded every id between them as a gap.
C11_Witness ==
    /\ observed_ids = {1, MaxGapId}
    /\ DOMAIN message_continuity = 1..MaxGapId
    /\ \A id \in 1..MaxGapId :
          message_continuity[id] =
              IF id \in observed_ids THEN [observed |-> 1, status |-> "observed"]
                                     ELSE [observed |-> 0, status |-> "unknown"]

----------------------------------------------------------------------------
(***************************************************************************)
(* Properties of the fetch loop                                            *)
(***************************************************************************)
\* the ids a call yielded to its consumer
Yielded(call) == Range(call.yielded)

\* the ids of the batches a call flushed (save_messages, then the checkpoint)
Persisted(call) == BatchIds(call.flushed)

\* the batches flushed so far, over all calls, oldest first
RECURSIVE FlushedUpTo(_)
FlushedUpTo(n) == IF n = 0 THEN <<>> ELSE FlushedUpTo(n - 1) \o calls[n].flushed

AllFlushed == FlushedUpTo(Len(calls))

\* the ids passed to save_messages so far, over all calls
AllSaved == UNION {BatchIds(calls[i].saved) : i \in 1..Len(calls)}

\* the ids that are in a parquet file
DurableIds == BatchIds(parquet_files)

\* C3: resume skips nothing.  When a run that was stopped after flushing at
\* least one batch is followed by a run with resume=True that runs to
\* completion (both with min_id at its default 0), every message of the
\* channel that the first run did not persist is yielded by the second run.
C3_ResumeSkipsNothing ==
    \A i \in 2..Len(calls) :
        (/\ calls[i-1].min_id = 0
         /\ calls[i-1].end = "stopped"
         /\ Len(calls[i-1].flushed) >= 1
         /\ calls[i].resume
         /\ calls[i].min_id = 0
         /\ calls[i].end = "completed")
        => (channel \ Persisted(calls[i-1])) \subseteq Yielded(calls[i])

\* C4: resume re-emits at most one batch.  A run with resume=True that
\* follows a run which flushed at least one batch yields at most batch_size
\* messages that the earlier run persisted, and none that the earlier run saw
\* when that run completed.
C4_ResumeReemitsAtMostOneBatch ==
    \A i \in 2..Len(calls) :
        (/\ calls[i-1].min_id = 0
         /\ Len(calls[i-1].flushed) >= 1
         /\ calls[i].resume
         /\ calls[i].min_id = 0)
        => /\ Cardinality(Yielded(calls[i]) \cap Persisted(calls[i-1])) <= batch_size
           /\ calls[i-1].end = "completed"
                => Yielded(calls[i]) \cap Yielded(calls[i-1]) = {}

\* C5: a flush passes the batch to save_messages first and only then writes
\* the checkpoint: while the checkpoint write is pending the batch is the one
\* last passed to save_messages, and the flushed batches of a call are, in
\* order, batches it had saved.  In every state the stored checkpoint is the
\* smallest id of the most recently flushed batch (0 before the first flush),
\* and it is an id that was passed to save_messages.
C5_CheckpointIsOldestOfFlushedBatch ==
    /\ \A i \in 1..Len(calls) : IsPrefix(calls[i].flushed, calls[i].saved)
    /\ pc = "checkpoint" =>
          /\ calls[Len(calls)].saved # <<>>
          /\ calls[Len(calls)].saved[Len(calls[Len(calls)].saved)] = batch
          /\ Len(calls[Len(calls)].flushed) = Len(calls[Len(calls)].saved) - 1
    /\ scrape_state # <<>> =>
          /\ scrape_state[1].last_message_id =
                IF AllFlushed = <<>> THEN 0
                ELSE Min(Range(AllFlushed[Len(AllFlushed)]))
          /\ scrape_state[1].last_message_id # 0
                => scrape_state[1].last_message_id \in AllSaved
    /\ scrape_state = <<>> => AllFlushed = <<>>

\* C5, witness: a batch of two messages was flushed, the checkpoint is the
\* older of the two, and the loop has gone on to the next message.
C5_Witness ==
    /\ AllFlushed # <<>>
    /\ Len(AllFlushed[Len(AllFlushed)]) = 2
    /\ scrape_state # <<>>
    /\ scrape_state[1].last_message_id = Min(Range(AllFlushed[Len(AllFlushed)]))
    /\ scrape_state[1].last_message_id < Max(Range(AllFlushed[Len(AllFlushed)]))
    /\ pc = "fetch"
    /\ batch # <<>>

\* C6: the checkpoint is only advanced over durable data: every message of a
\* batch whose flush has written the checkpoint is in a parquet file (not only
\* in the in-memory write buffer), in every state from then on, a process
\* restart included.
C6_CheckpointOnlyOverDurableData ==
    \A i \in 1..Len(calls) : Persisted(calls[i]) \subseteq DurableIds

----------------------------------------------------------------------------
(***************************************************************************)
(* Properties of BiasMetrics                                               *)
(***************************************************************************)
\* C10: metric zero-safety.  For any non-negative counts, and for the counts
\* compute_metrics returns for any content of the table, gap_ratio and
\* coverage_rate are 0.0 when expected_message_count is 0, deletion_rate and
\* edit_rate are 0.0 when observed_message_count is 0, and none of the four
\* properties raises ZeroDivisionError.
C10_MetricZeroSafety ==
    rates # <<>> =>
        /\ metrics.expected_message_count = 0
              => rates[1].gap_ratio = Zero /\ rates[1].coverage_rate = Zero
        /\ metrics.observed_message_count = 0
              => rates[1].deletion_rate = Zero /\ rates[1].edit_rate = Zero
        /\ ~rates[1].gap_ratio.raised
        /\ ~rates[1].coverage_rate.raised
        /\ ~rates[1].deletion_rate.raised
        /\ ~rates[1].edit_rate.raised

\* C10, witness: the properties were read from an object whose two
\* denominators are 0 while the numerators are not.
C10_Witness ==
    /\ rates # <<>>
    /\ metrics.expected_message_count = 0
    /\ metrics.observed_message_count = 0
    /\ metrics.gap_count > 0
    /\ metrics.confirmed_deleted > 0
    /\ metrics.edited_messages > 0


----------------------------------------------------------------------------
(***************************************************************************)
(* Properties of the proxy pool                                            *)
(***************************************************************************)
Endpoints == {proxies[i] : i \in 1..Len(proxies)}

\* C19: whatever sequence of mark_success, mark_failure and reset an endpoint
\* has gone through, if its dead flag is set then its failures are at least 3
\* and its success rate is below 0.2; an endpoint of 2 successes and 3
\* failures (rate 0.4) is not dead.
C19_DeadImpliesJointCondition ==
    /\ \A p \in Endpoints :
            p.is_dead => p.failures >= DeadFailures /\ LowRate(p)
    /\ \A p \in Endpoints : p.successes = 2 /\ p.failures = 3 => ~p.is_dead

\* an endpoint that is dead although it has succeeded, next to one of 2
\* successes and 3 failures
C19_Witness ==
    /\ \E p \in Endpoints : p.is_dead /\ p.successes > 0
    /\ \E p \in Endpoints : p.successes = 2 /\ p.failures = 3

\* the endpoints get_proxy can return, now or (round_robin) in one of its next
\* calls
Selectable(ps, strategy) ==
    IF strategy = "round_robin"
    THEN Keys(Available(ps))
    ELSE {r.proxy : r \in GetProxy(ps, strategy, 0)} \ {NoProxy}

----------------------------------------------------------------------------
(***************************************************************************)
(* Properties of the rate-limit handling                                   *)
(***************************************************************************)
\* mandated duration + min(n * 5, 60)
MandatedPlusPenalty(w) ==
    w.seconds + (IF w.count * 5 <= 60 THEN w.count * 5 ELSE 60)

C13_RotationAskedFromSecondFlood ==
    [][\A seconds \in WaitSeconds, outcome \in ReconnectOutcomes :
            (/\ proxy_manager
             /\ proxy_rotation_on_flood
             /\ handle_flood_wait(seconds, outcome))
            => /\ last_wait'[1].count = flood_wait_count + 1
               /\ last_wait'[1].asked <=> flood_wait_count + 1 >= 2
               /\ last_wait'[1].asked => selected' = <<last_wait'[1].returned>>
               /\ ~last_wait'[1].slept]_vars

\* the second counted signal has asked for an endpoint and the wait has not
\* yet ended
C13_Witness ==
    /\ proxy_manager
    /\ proxy_rotation_on_flood
    /\ last_wait # <<>>
    /\ last_wait[1].count = 2
    /\ last_wait[1].asked
    /\ ~last_wait[1].slept
    /\ selected = <<last_wait[1].returned>>


----------------------------------------------------------------------------
(***************************************************************************)
(* Properties of the fetch loop under exceptions and cancellation          *)
(***************************************************************************)
\* C14 as stated: a FloodWaitError raised at any point of a scrape_channel
\* run, while the next message is fetched or while a message is handled, is
\* handled by the backoff protocol (it is counted and waited for), the loop
\* goes on fetching, and the call does not end by raising it to the caller.
C14_FloodHandledEverywhere ==
    [][(\/ fetch_raises("FloodWaitError")
        \/ \E where \in RaisePoints, seconds \in WaitSeconds :
                message_raises("FloodWaitError", where, seconds))
       => /\ pc' = "fetch"
          /\ flood_wait_count' = flood_wait_count + 1
          /\ calls'[Len(calls')].end = "running"]_vars

\* C15 as stated: an exception (not a FloodWaitError) raised by the handling
\* of one message does not end scrape_channel, the message is neither yielded
\* nor in the batch that will be persisted, and the loop goes on with the next
\* message.
C15_FailedMessageSkipped ==
    [][(\E where \in RaisePoints, seconds \in WaitSeconds :
            message_raises("Exception", where, seconds))
       => /\ pc' = "fetch"
          /\ calls'[Len(calls')].end = "running"
          /\ pending' = Tail(pending)
          /\ calls'[Len(calls')].yielded = calls[Len(calls)].yielded
          /\ Head(pending) \notin Range(batch')]_vars


\* stop() was called during the scrape_channel run in progress
StopRequested == pc # "idle" /\ ~is_running

\* the checkpoint that the flushes made so far have left in the store
CheckpointOfLastFlush ==
    IF AllFlushed = <<>> THEN 0 ELSE Min(Range(AllFlushed[Len(AllFlushed)]))

\* C16: cancellation is cooperative.  Once stop() has been called during a
\* scrape_channel run, no step of that run yields a message, counts one or
\* adds one to the batch; a flush that was in progress is
\* completed (the batch is saved, then the checkpoint written), the loop is
\* then left, and when the run has returned the stored checkpoint is the one
\* of the last flush.
C16_CooperativeCancellation ==
    [][(/\ StopRequested
        /\ Len(calls') = Len(calls)
        /\ calls'[Len(calls')].end # "crashed")
       => /\ calls'[Len(calls')].yielded = calls[Len(calls)].yielded
          /\ batch' = batch \/ batch' = <<>>
          /\ messages_scraped' = messages_scraped
          /\ pc = "fetch" /\ pc' = "save" => loop_exit' # "no"
          /\ pc = "fetch" => pc' \in {"fetch", "save", "idle"}
          /\ pc = "save" /\ pc' # pc =>
                /\ pc' = "checkpoint"
                /\ calls'[Len(calls')].saved = Append(calls[Len(calls)].saved, batch)
          /\ pc = "checkpoint" /\ pc' # pc =>
                /\ calls'[Len(calls')].flushed = Append(calls[Len(calls)].flushed, batch)
                /\ scrape_state'[1].last_message_id = OldestId(batch)
          /\ pc' = "idle" =>
                /\ calls'[Len(calls')].end \in {"stopped", "completed"}
                /\ scrape_state'[1].last_message_id = CheckpointOfLastFlush']_vars

\* a run was stopped with a message of the source left unprocessed, after it
\* had flushed a batch; the checkpoint is the oldest id of that batch
C16_Witness ==
    /\ pc = "idle"
    /\ calls # <<>>
    /\ calls[Len(calls)].end = "stopped"
    /\ pending # <<>>
    /\ calls[Len(calls)].flushed # <<>>
    /\ Head(pending) \notin Yielded(calls[Len(calls)])
    /\ scrape_state[1].last_message_id = CheckpointOfLastFlush

----------------------------------------------------------------------------
(***************************************************************************)
(* Properties of connect                                                   *)
(***************************************************************************)
\* C21: a connect call makes at most two handshake attempts: after a failed
\* handshake through an endpoint of the pool it tries one other endpoint, and
\* when that fails as well the error is raised
C21_AtMostTwoAttempts ==
    connection # <<>> => Len(connection[1].attempts) <= 2

\* C22: when the pool has no endpoint left that is not dead at the retry
\* after a failed handshake through an endpoint, connect goes on with a
\* direct connection instead of raising
C22_DirectWhenPoolRunsOut ==
    [][(handshake_fails /\ ThroughPool(current_proxy)
            /\ Available(proxies') = <<>>)
        => (connection'[1].status = "handshake"
            /\ current_proxy' = NoProxy)]_vars

\* a connect call whose first selection found no live endpoint is handshaking
\* without a proxy
DirectWhenPoolEmpty ==
    [][(connect /\ Available(proxies) = <<>>)
        => (current_proxy' = NoProxy
            /\ connection'[1].attempts = <<NoProxy>>)]_vars

\* C30: the flood count counts consecutive rate-limit events: a message
\* handled without a signal, and the start of a scrape_channel run, bring it
\* back to 0 (so that two events separated by handled messages do not reach
\* the rotation threshold of 2)
C30_CountOfConsecutiveEvents ==
    [][(\/ next_message /\ ~StopSeen
        \/ \E resume \in BOOLEAN, min_id \in 0..MaxMinId :
                scrape_channel(resume, min_id))
       => flood_wait_count' = 0]_vars

\* the scrape_channel runs that ended because the source was exhausted or a
\* stop was observed
Drained(call) == call.end \in {"completed", "stopped"}

\* the messages that a run passed to save_messages
SavedBy(call) == BatchIds(call.saved)

\* C24: every message that a scrape_channel run has appended to a batch and
\* yielded has been recorded with record_message when the run has ended
C24_YieldedIsRecorded ==
    \A i \in 1..Len(calls) :
        Drained(calls[i]) => Yielded(calls[i]) \subseteq DOMAIN message_continuity

\* every message a drained run yielded was passed to save_messages
YieldedIsSaved ==
    \A i \in 1..Len(calls) :
        Drained(calls[i]) => Yielded(calls[i]) \subseteq SavedBy(calls[i])

\* C28: when a scrape_channel run has ended by exhaustion or by a stop, every
\* message it yielded was passed to save_messages, and no message was passed
\* to save_messages without having been yielded
C28_DrainingFlushesEverything ==
    \A i \in 1..Len(calls) :
        Drained(calls[i]) => Yielded(calls[i]) = SavedBy(calls[i])

----------------------------------------------------------------------------
(***************************************************************************)
(* Properties of capability gating                                         *)
(***************************************************************************)
\* C23: when the backend in use declares message_id_reliable = false, no
\* ContinuityRecord has the status unknown or deleted: detect_gaps and
\* record_gap infer nothing from the ids of such a backend
C23_NoInferenceFromUnreliableIds ==
    ~Capabilities(backend).message_id_reliable
        => \A id \in DOMAIN message_continuity :
                message_continuity[id].status \notin {"unknown", "deleted"}

----------------------------------------------------------------------------
(***************************************************************************)
(* Properties of the web backend                                           *)
(***************************************************************************)
\* the items yielded by the scrape_channel call of the web backend
WebYielded == BagToSet(web_yielded)

\* C26: within one scrape_channel call of the web backend no two yielded
\* items have the same fingerprint, the fingerprint being that of the triple
\* (text, timestamp, id): different triples have different fingerprints, no
\* item is yielded twice, and every message of a page that is consumed to its
\* end has been yielded, so that two messages that share an id but differ in
\* text or timestamp are both yielded.
C26_YieldedOncePerFingerprint ==
    /\ \A m1 \in WebMessages, m2 \in WebMessages :
            MessageHash(m1) = MessageHash(m2) => m1 = m2
    /\ [](/\ \A m \in WebYielded : CopiesIn(m, web_yielded) = 1
          /\ BagCardinality(web_yielded) = web_messages_scraped
          /\ \A m \in WebMessages :
                m \in WebYielded <=> MessageHash(m) \in seen_ids)
    /\ [][\A messages \in Pages :
            (web_page(messages) /\ web_limit = <<>>)
                => \A i \in 1..Len(messages) : messages[i] \in WebYielded']_vars

\* two messages with the same id, one differing from the other in its text
\* and a third one in its timestamp, have all been yielded by one call
C26_Witness ==
    \E m1 \in WebYielded, m2 \in WebYielded, m3 \in WebYielded :
        /\ m1.message_id = m2.message_id
        /\ m1.message_id = m3.message_id
        /\ m1.message_id # NoId
        /\ m1.text # m2.text
        /\ m1.timestamp = m2.timestamp
        /\ m1.text = m3.text
        /\ m1.timestamp # m3.timestamp

----------------------------------------------------------------------------
(***************************************************************************)
(* Properties of the media downloader                                      *)
(***************************************************************************)
\* the queued downloads that have not finished: tasks in the queue and tasks
\* held by a worker
Outstanding ==
    Cardinality({i \in 1..Len(media_queue) : media_queue[i] = "task"})
        + Cardinality({w \in 1..Len(workers) :
                            workers[w] \in {"acquire", "download"}})

\* C25: at any time at most max_concurrent media downloads are in progress,
\* whatever the number of queued tasks and of worker tasks and however they
\* interleave, and queue_download never waits for a download: the queue is
\* never full, so that its put returns at once, also while max_concurrent
\* downloads are in progress and further tasks are queued.
C25_BoundedDownloads ==
    /\ Cardinality(Downloading) <= max_concurrent
    /\ ~Full(media_queue)

\* max_concurrent downloads are in progress while another worker that holds a
\* task waits for the semaphore and a further task is in the queue
C25_Witness ==
    /\ Cardinality(Downloading) = max_concurrent
    /\ \E w \in 1..Len(workers) : workers[w] = "acquire"
    /\ \E i \in 1..Len(media_queue) : media_queue[i] = "task"

\* C29: a wait_completion call returns: whenever a caller is waiting in
\* wait_completion, on the first or on a later use of the MediaDownloader,
\* it eventually gets out of it
C29_WaitCompletionReturns ==
    (waiter.pc \in {"join", "gather"}) ~> (waiter.pc = "idle")

\* the first wait_completion call of a MediaDownloader returns
FirstWaitReturns ==
    (waiter.pc \in {"join", "gather"} /\ waiter.calls = 1) ~> (waiter.pc = "idle")

\* a second wait_completion call finds the sentinels of the first one counted
\* as unfinished tasks of the queue
SecondWaitBlocked ==
    waiter.pc = "join" /\ waiter.calls = 2 => unfinished_tasks >= max_concurrent + Outstanding

----------------------------------------------------------------------------
(***************************************************************************)
(* Further properties of the rate-limit handling                           *)
(***************************************************************************)
\* C31: the wait after a rate-limit signal is shortened only when the
\* reconnection through the new endpoint completed; when no other endpoint
\* was obtained or the reconnection failed, the full wait (mandated duration
\* plus penalty) is slept, and an endpoint through which the reconnection
\* failed is not left as the current one
C31_ShortenedOnlyOnSuccess ==
    last_wait # <<>> /\ last_wait[1].reconnect # "ok"
        => /\ last_wait[1].total_wait = MandatedPlusPenalty(last_wait[1])
           /\ last_wait[1].reconnect # "none"
                => current_proxy # last_wait[1].returned

\* the full wait is slept when no other endpoint was obtained
FullWaitWithoutRotation ==
    last_wait # <<>> /\ last_wait[1].reconnect = "none"
        => last_wait[1].total_wait = MandatedPlusPenalty(last_wait[1])

----------------------------------------------------------------------------
(***************************************************************************)
(* Trackers over one store: messages are recorded and ranges scanned for   *)
(* gaps, by the tracker that recorded them, by a tracker created later     *)
(* over the same database file, and after a new start_run                  *)
(***************************************************************************)
\* (the messages of the channel have the ids 0..MaxId; the ranges scanned
\* reach up to MaxGapId)
RestartNext ==
    \/ NewTracker
    \/ start_run
    \/ \E id \in Ids, text \in Texts, check_edit \in BOOLEAN :
            record_message(id, text, check_edit)
    \/ \E lo \in GapIds, hi \in GapIds : detect_gaps(lo, hi)

SpecRestart == Init /\ [][RestartNext]_vars

\* the row of the id says that the id was observed at some time
EverObserved(table, id) == id \in DOMAIN table /\ table[id].observed = 1

\* the sequence is strictly ascending
Ascending(s) == \A i \in 1..Len(s), j \in 1..Len(s) : i < j => s[i] < s[j]

----------------------------------------------------------------------------
(***************************************************************************)
(* Further properties of the status history                                *)
(***************************************************************************)
\* C33: every record_message call appends exactly one entry for its key to
\* the status history: an edited entry when the checksum of the text differs
\* from that of the most recent observed entry of the key, an observed entry
\* otherwise, for every text, the empty text included
C33_OneEntryPerCall ==
    [][\A id \in Ids, text \in Texts :
          record_message(id, text, TRUE)
          => LET row == LastObserved(message_status_history, id)
                 status == IF row # <<>> /\ row[1].text_checksum # Checksum(text)
                           THEN "edited" ELSE "observed"
             IN  Appended(message_status_history, message_status_history',
                          HistoryEntry(id, status, Checksum(text)))]_vars

\* a call with a text that is not empty appends exactly one entry
OneEntryPerNonEmptyText ==
    [][\A id \in Ids, text \in Texts \ {""} :
          record_message(id, text, TRUE)
          => LET row == LastObserved(message_status_history, id)
                 status == IF row # <<>> /\ row[1].text_checksum # Checksum(text)
                           THEN "edited" ELSE "observed"
             IN  Appended(message_status_history, message_status_history',
                          HistoryEntry(id, status, Checksum(text)))]_vars

----------------------------------------------------------------------------
(***************************************************************************)
(* Resumed runs: scrape_channel with lower bounds below, at and above the  *)
(* stored checkpoint                                                       *)
(***************************************************************************)
\* the min_id argument ranges over 0..MaxLowerBound here
MaxLowerBound == 3

ResumeNext ==
    \/ \E resume \in BOOLEAN, min_id \in 0..MaxLowerBound :
            scrape_channel(resume, min_id)
    \/ next_message
    \/ iteration_ends
    \/ save_messages
    \/ update_scrape_state
    \/ NewProcess

SpecResume == ScrapeInit /\ [][ResumeNext]_vars

\* the stored checkpoint, 0 when the channel has no row
Checkpoint(row) == IF row = <<>> THEN 0 ELSE row[1].last_message_id

\* C34: with resume=True and a stored checkpoint c > 0 the lower bound that
\* scrape_channel passes to the adapter is max(min_id, c); with resume=False,
\* with no stored state or with c = 0 it is the caller's min_id; and the
\* lookup and the initialisation of the channel leave the checkpoint as it is
C34_ResumeLowerBound ==
    [][\A resume \in BOOLEAN, min_id \in 0..MaxLowerBound :
          scrape_channel(resume, min_id)
          => LET c     == Checkpoint(scrape_state)
                 bound == IF resume /\ scrape_state # <<>> /\ c > 0
                          THEN Max({min_id, c}) ELSE min_id
             IN  /\ pending' = iter_messages(bound)
                 /\ Checkpoint(scrape_state') = c]_vars

\* a run has just been resumed with a lower bound above the stored
\* checkpoint, and the adapter has messages above that bound
C34_Witness ==
    /\ Len(calls) = 2
    /\ calls[2].resume
    /\ calls[2].yielded = <<>>
    /\ pc = "fetch"
    /\ scrape_state # <<>>
    /\ scrape_state[1].last_message_id > 0
    /\ calls[2].min_id > scrape_state[1].last_message_id
    /\ pending # <<>>

----------------------------------------------------------------------------
(***************************************************************************)
(* Further properties of the proxy pool                                    *)
(***************************************************************************)
\* the number of non-dead endpoints of a strictly higher score than the
\* endpoint of the key
RankOf(ps, key) ==
    LET av == Available(ps)
        b  == success_rate(av[IndexOf(av, key)])
    IN  Cardinality({j \in 1..Len(av) :
            success_rate(av[j]).num * b.den > b.num * success_rate(av[j]).den})

\* the size of the top quartile of n endpoints (at least one endpoint)
TopQuartile(n) == Max({1, (n + TopShare - 1) \div TopShare})

\* C35: under the weighted strategy get_proxy returns only a non-dead
\* endpoint that ranks within the top quartile of the non-dead endpoints by
\* health score, for every pool size
C35_WithinTopQuartile ==
    [][(get_proxy /\ rotation_strategy = "weighted" /\ selected'[1] # NoProxy)
        => /\ selected'[1] \in Keys(Available(proxies))
           /\ RankOf(proxies, selected'[1])
                < TopQuartile(Len(Available(proxies)))]_vars

\* under the weighted strategy get_proxy returns only a non-dead endpoint
WeightedReturnsLiveEndpoint ==
    [][(get_proxy /\ rotation_strategy = "weighted" /\ selected'[1] # NoProxy)
        => selected'[1] \in Keys(Available(proxies))]_vars

----------------------------------------------------------------------------
(***************************************************************************)
(* Runs of one tracker: runs are started, also while one is current, and   *)
(* ended, and their events are counted                                     *)
(***************************************************************************)
\* at most MaxManifests runs are started
MaxManifests == 3

ManifestsNext ==
    \/ StartRun(MaxManifests)
    \/ end_run
    \/ record_flood_wait
    \/ record_proxy_rotation
    \/ record_error

SpecManifests == Init /\ [][ManifestsNext]_vars

\* the run_ids of the manifests created so far
Started == 1..(next_run_id - 1)

\* C36: at most one manifest is current and no run is lost: every manifest
\* created by start_run is current or has been persisted by the end_run that
\* finalised it, also when start_run is called again before end_run was
\* called for the previous run; and a new manifest starts with no counter of
\* an earlier run
C36_NoRunLost ==
    /\ Len(current_run) <= 1
    /\ \A r \in Started :
            \/ current_run # <<>> /\ current_run[1].run_id = r
            \/ r \in DOMAIN scrape_runs /\ r \in DOMAIN manifest_files
    /\ DOMAIN scrape_runs \subseteq Started

\* at most one manifest is current, and what is persisted is the manifest of
\* a run that was started, ended, under its own run_id
PersistedRunsWereStarted ==
    /\ Len(current_run) <= 1
    /\ DOMAIN scrape_runs \subseteq Started
    /\ \A r \in DOMAIN scrape_runs :
            scrape_runs[r].run_id = r /\ scrape_runs[r].ended

----------------------------------------------------------------------------
(***************************************************************************)
(* The metrics of a store of messages of the ids 1..MaxGapId, which one    *)
(* tracker records (without text), reports missing or deleted, and scans   *)
(***************************************************************************)
MessageIds == 1..MaxGapId

CountsNext ==
    \/ \E id \in MessageIds : record_message(id, "", TRUE)
    \/ \E id \in MessageIds, status \in MessageStatus : record_gap(id, status)
    \/ \E id \in MessageIds : record_deletion(id)
    \/ \E lo \in MessageIds, hi \in MessageIds : detect_gaps(lo, hi)
    \/ compute_metrics

SpecCounts == Init /\ [][CountsNext]_vars

\* the ratio lies between 0 and 1 inclusive
InUnitInterval(q) == ~q.raised /\ 0 <= q.num /\ q.num <= q.den

\* C37: in every state reachable by record_message, record_gap,
\* record_deletion and detect_gaps calls, what compute_metrics returns has
\* observed_message_count <= expected_message_count, gap_count >= 0, and
\* gap_ratio, coverage_rate, deletion_rate and edit_rate between 0 and 1
C37_MetricsWithinBounds ==
    LET m == ComputeMetrics(message_continuity)
    IN  /\ m.observed_message_count <= m.expected_message_count
        /\ m.gap_count >= 0
        /\ InUnitInterval(gap_ratio(m))
        /\ InUnitInterval(coverage_rate(m))
        /\ InUnitInterval(deletion_rate(m))
        /\ InUnitInterval(edit_rate(m))

\* for ids from 1 on, all of the above but the bound on deletion_rate hold
MetricsBoundsButDeletionRate ==
    LET m == ComputeMetrics(message_continuity)
    IN  /\ m.observed_message_count <= m.expected_message_count
        /\ m.gap_count >= 0
        /\ InUnitInterval(gap_ratio(m))
        /\ InUnitInterval(coverage_rate(m))
        /\ InUnitInterval(edit_rate(m))


\* proxy.py:484-507: the counts of get_stats
GetStats(ps, dead) ==
    [total     |-> Len(ps),
     available |-> Len(Available(ps)),
     dead      |-> Cardinality(dead)]

\* C38: in every reachable state of a ProxyManager get_stats satisfies
\* total = available + dead, and the dead count it reports is the number of
\* endpoints of the pool whose dead flag is set
C38_StatsAddUp ==
    LET stats == GetStats(proxies, dead_proxies)
    IN  /\ stats.total = stats.available + stats.dead
        /\ stats.dead = Cardinality({i \in 1..Len(proxies) : proxies[i].is_dead})


----------------------------------------------------------------------------
(***************************************************************************)
(* Further properties of the fetch loop under rate-limit signals           *)
(***************************************************************************)
\* C39: a rate-limit signal delays a message but does not drop it: when a
\* FloodWaitError is raised while message m is handled, then after the wait
\* m is still to be handled, or it has been yielded and is in the batch that
\* will be persisted
C39_FloodDelaysButKeeps ==
    [][\A where \in RaisePoints, seconds \in WaitSeconds :
          message_raises("FloodWaitError", where, seconds)
          => LET m == Head(pending)
             IN  \/ m \in Range(pending')
                 \/ /\ m \in Range(batch')
                    /\ m \in Yielded(calls'[Len(calls')])]_vars

\* the wait itself takes place: the signal is counted and slept for, and the
\* loop goes on with the messages that follow
FloodWaitedAndLoopGoesOn ==
    [][\A where \in RaisePoints, seconds \in WaitSeconds :
          message_raises("FloodWaitError", where, seconds)
          => /\ last_wait'[1].slept
             /\ last_wait'[1].total_wait = MandatedPlusPenalty(last_wait'[1])
             /\ pc' = "fetch"
             /\ pending' = Tail(pending)]_vars


----------------------------------------------------------------------------
(***************************************************************************)
(* Gap detection over trackers of one store                                *)
(***************************************************************************)
\* the ids that some tracker has recorded in the store with record_message
StoreObserved == {id \in DOMAIN message_continuity :
                        EverObserved(message_continuity, id)}

\* C40: gap detection does not depend on which tracker instance or run
\* recorded the observations: detect_gaps on any tracker over the store (one
\* created after a restart, or after a new start_run) returns the ids of the
\* range that are not observed in the store, as the tracker that recorded the
\* observations does, and changes no row of an id that is observed in the
\* store
C40_GapsIndependentOfInstance ==
    [][\A lo \in GapIds, hi \in GapIds :
          detect_gaps(lo, hi)
          => /\ GapSet(observed_ids, lo, hi) = (lo..hi) \ StoreObserved
             /\ \A id \in StoreObserved :
                    message_continuity[id].status \in {"observed", "edited"}
                        => message_continuity'[id] = message_continuity[id]]_vars

\* on the tracker that recorded every observation of the store, in the run
\* in which it recorded them, detect_gaps returns the ids of the range that
\* are not observed in the store and changes no row of an observed id
GapsOfRecordingTracker ==
    [][\A lo \in GapIds, hi \in GapIds :
          (detect_gaps(lo, hi) /\ observed_ids = StoreObserved)
          => /\ GapSet(observed_ids, lo, hi) = (lo..hi) \ StoreObserved
             /\ \A id \in StoreObserved :
                    message_continuity'[id] = message_continuity[id]]_vars

====
